---- MODULE Spec2Model ----
(***************************************************************************)
(* Request routing, fan-out/fan-in execution and response synthesis of the *)
(* aviation multi-agent system (src/aviation_agents).                      *)
(*                                                                         *)
(* Text is modelled as a sequence of one-character strings, so that the    *)
(* substring tests of the routers are computed and not assumed.  A         *)
(* response text is modelled as the sequence of the segments it is the     *)
(* concatenation of.                                                       *)
(***************************************************************************)
EXTENDS Naturals, Sequences, FiniteSets, TLC

(***************************************************************************)
(* Text helpers: str.lower() and the Python "in" test on strings.          *)
(***************************************************************************)
UpperChars ==
  <<"A","B","C","D","E","F","G","H","I","J","K","L","M",
    "N","O","P","Q","R","S","T","U","V","W","X","Y","Z">>

LowerChars ==
  <<"a","b","c","d","e","f","g","h","i","j","k","l","m",
    "n","o","p","q","r","s","t","u","v","w","x","y","z">>

lower_char(c) ==
  IF \E i \in 1..Len(UpperChars) : UpperChars[i] = c
  THEN LowerChars[CHOOSE i \in 1..Len(UpperChars) : UpperChars[i] = c]
  ELSE c

no_lower(s) == s

lower(s) == [i \in 1..Len(s) |-> lower_char(s[i])]

RECURSIVE find_from(_, _, _)
find_from(keyword, text, i) ==
  IF i + Len(keyword) - 1 > Len(text) THEN FALSE
  ELSE IF SubSeq(text, i, i + Len(keyword) - 1) = keyword THEN TRUE
  ELSE find_from(keyword, text, i + 1)

\* text.startswith(keyword)
starts_with(keyword, text) ==
  Len(keyword) <= Len(text) /\ SubSeq(text, 1, Len(keyword)) = keyword

\* keyword in text
contains(keyword, text) == find_from(keyword, text, 1)

\* any(keyword in text for keyword in keywords)
any_keyword(keywords, text) ==
  \E i \in 1..Len(keywords) : contains(keywords[i], text)

(***************************************************************************)
(* Keyword tables.                                                         *)
(***************************************************************************)
agent_routing ==
  << [agent |-> "hr", keywords |->
        << <<"e","m","p","l","o","y","e","e">>,
           <<"s","t","a","f","f">>,
           <<"t","r","a","i","n","i","n","g">>,
           <<"c","e","r","t","i","f","i","c","a","t","i","o","n">>,
           <<"h","i","r","e">>,
           <<"o","n","b","o","a","r","d">>,
           <<"h","r">>,
           <<"p","e","r","s","o","n","n","e","l">> >>],
     [agent |-> "meeting", keywords |->
        << <<"m","e","e","t","i","n","g">>,
           <<"r","o","o","m">>,
           <<"b","o","o","k">>,
           <<"s","c","h","e","d","u","l","e">>,
           <<"c","o","n","f","e","r","e","n","c","e">>,
           <<"r","e","s","e","r","v","a","t","i","o","n">>,
           <<"c","a","l","e","n","d","a","r">> >>],
     [agent |-> "supply_chain", keywords |->
        << <<"i","n","v","e","n","t","o","r","y">>,
           <<"p","a","r","t","s">>,
           <<"s","u","p","p","l","i","e","r">>,
           <<"o","r","d","e","r">>,
           <<"s","t","o","c","k">>,
           <<"p","r","o","c","u","r","e","m","e","n","t">>,
           <<"p","u","r","c","h","a","s","e">> >>] >>

hr_tool_keywords ==
  << [tool |-> "create_employee_record", keywords |->
        << <<"c","r","e","a","t","e"," ","e","m","p","l","o","y","e","e">>,
           <<"a","d","d"," ","e","m","p","l","o","y","e","e">>,
           <<"n","e","w"," ","h","i","r","e">>,
           <<"o","n","b","o","a","r","d">> >>],
     [tool |-> "schedule_training", keywords |->
        << <<"t","r","a","i","n","i","n","g">>,
           <<"s","c","h","e","d","u","l","e">>,
           <<"c","o","u","r","s","e">> >>],
     [tool |-> "track_certification", keywords |->
        << <<"c","e","r","t","i","f","i","c","a","t","i","o","n">>,
           <<"l","i","c","e","n","s","e">>,
           <<"t","r","a","c","k">>,
           <<"e","x","p","i","r","y">> >>],
     [tool |-> "generate_hr_report", keywords |->
        << <<"r","e","p","o","r","t">>,
           <<"g","e","n","e","r","a","t","e">>,
           <<"s","u","m","m","a","r","y">> >>] >>

meeting_tool_keywords ==
  << [tool |-> "book_meeting_room", keywords |->
        << <<"b","o","o","k">>,
           <<"r","e","s","e","r","v","e">>,
           <<"s","c","h","e","d","u","l","e"," ","m","e","e","t","i","n","g">>,
           <<"r","o","o","m"," ","b","o","o","k","i","n","g">> >>],
     [tool |-> "check_room_availability", keywords |->
        << <<"a","v","a","i","l","a","b","i","l","i","t","y">>,
           <<"c","h","e","c","k">>,
           <<"a","v","a","i","l","a","b","l","e">>,
           <<"f","r","e","e">> >>],
     [tool |-> "cancel_booking", keywords |->
        << <<"c","a","n","c","e","l">>,
           <<"d","e","l","e","t","e">>,
           <<"r","e","m","o","v","e"," ","b","o","o","k","i","n","g">> >>],
     [tool |-> "generate_meeting_report", keywords |->
        << <<"r","e","p","o","r","t">>,
           <<"s","u","m","m","a","r","y">>,
           <<"m","e","e","t","i","n","g"," ","s","t","a","t","s">> >>] >>

supply_chain_tool_keywords ==
  << [tool |-> "track_inventory", keywords |->
        << <<"i","n","v","e","n","t","o","r","y">>,
           <<"s","t","o","c","k">>,
           <<"c","h","e","c","k"," ","p","a","r","t","s">>,
           <<"t","r","a","c","k">> >>],
     [tool |-> "order_parts", keywords |->
        << <<"o","r","d","e","r">>,
           <<"p","u","r","c","h","a","s","e">>,
           <<"b","u","y"," ","p","a","r","t","s">>,
           <<"p","r","o","c","u","r","e","m","e","n","t">> >>],
     [tool |-> "check_supplier_status", keywords |->
        << <<"s","u","p","p","l","i","e","r">>,
           <<"v","e","n","d","o","r">>,
           <<"c","h","e","c","k"," ","s","u","p","p","l","i","e","r">> >>],
     [tool |-> "generate_inventory_report", keywords |->
        << <<"r","e","p","o","r","t">>,
           <<"i","n","v","e","n","t","o","r","y"," ","r","e","p","o","r","t">>,
           <<"s","u","m","m","a","r","y">> >>] >>

MessageText ==
  [ m_weather |->
      <<"w","h","a","t","'","s"," ","t","h","e"," ","w","e","a","t","h","e","r">>,
    m_training |->
      <<"I"," ","n","e","e","d"," ","t","o"," ","s","c","h","e","d","u","l","e"," ","a"," ","t","r","a","i","n","i","n","g"," ","s","e","s","s","i","o","n"," ","f","o","r"," ","e","m","p","l","o","y","e","e"," ","E","M","P","_","0","0","1">>,
    m_room_cert |->
      <<"b","o","o","k"," ","a"," ","c","o","n","f","e","r","e","n","c","e"," ","r","o","o","m"," ","f","o","r"," ","t","o","m","o","r","r","o","w"," ","a","n","d"," ","a","l","s","o"," ","c","h","e","c","k"," ","e","m","p","l","o","y","e","e"," ","c","e","r","t","i","f","i","c","a","t","i","o","n","s">>,
    m_onboard |->
      <<"O","n","b","o","a","r","d"," ","S","T","A","F","F"," ","a","n","d"," ","g","e","n","e","r","a","t","e"," ","r","e","p","o","r","t">>,
    m_three |->
      <<"t","h","r","e","e">>,
    m_room |->
      <<"I","s"," ","t","h","e"," ","R","o","o","m"," ","a","v","a","i","l","a","b","l","e">>,
    m_vendor |->
      <<"v","e","n","d","o","r"," ","a","n","d"," ","s","u","p","p","l","i","e","r"," ","s","t","a","t","u","s">>,
    m_order |->
      <<"p","u","r","c","h","a","s","e"," ","o","r","d","e","r"," ","f","o","r"," ","t","h","e"," ","s","u","p","p","l","i","e","r">>,
    m_all |->
      <<"o","r","d","e","r"," ","p","a","r","t","s",","," ","b","o","o","k"," ","a"," ","r","o","o","m"," ","a","n","d"," ","h","i","r","e"," ","s","t","a","f","f">>,
    m_stock |->
      <<"r","e","s","e","r","v","a","t","i","o","n"," ","f","o","r"," ","t","h","e"," ","s","t","o","c","k"," ","r","e","v","i","e","w">>,
    m_personnel |->
      <<"p","e","r","s","o","n","n","e","l"," ","i","n","v","e","n","t","o","r","y">>,
    m_cancel |->
      <<"c","a","n","c","e","l"," ","m","y"," ","r","e","s","e","r","v","a","t","i","o","n">> ]

Domains == {"hr", "meeting", "supply_chain"}

(***************************************************************************)
(* Domain classifier of the Orchestrator.                                  *)
(***************************************************************************)
RECURSIVE required_from(_, _)
required_from(i, message_lower) ==
  IF i > Len(agent_routing) THEN <<>>
  ELSE (IF any_keyword(agent_routing[i].keywords, message_lower)
        THEN <<[agent |-> agent_routing[i].agent, priority |-> 1]>>
        ELSE <<>>)
       \o required_from(i + 1, message_lower)

\* the loop stops at the first matching domain
determine_first_match(user_message) ==
  LET matched == required_from(1, lower(user_message))
  IN IF matched = <<>> THEN <<>> ELSE <<matched[1]>>

determine_required_agents(user_message) ==
  required_from(1, lower(user_message))

\* the names are listed last selected first
agents_of_reversed(required_agents) ==
  [i \in 1..Len(required_agents) |->
     required_agents[Len(required_agents) + 1 - i].agent]

agents_of(required_agents) ==
  [i \in 1..Len(required_agents) |-> required_agents[i].agent]

(***************************************************************************)
(* Identifiers.  A uuid4 is modelled by the number that stands for its     *)
(* first eight characters (head) and the rest; uuid4() draws a fresh one.  *)
(* str(uuid)[:8] and task_id[:8] keep the head only.                       *)
(***************************************************************************)
uuid4(counter) == [head |-> counter, rest |-> counter]

first8(uuid) == uuid.head

task_id_first8(task_id) == first8(task_id.uuid)

prefixed(prefix, head) == [prefix |-> prefix, chars |-> head]

\* every sub-agent gets the same suffix
sub_task_id_same_suffix(task_id, agent) ==
  [uuid |-> task_id.uuid, suffix |-> <<"_", "agent">>]

sub_task_id(task_id, agent) == [uuid |-> task_id.uuid, suffix |-> <<"_", agent>>]

(***************************************************************************)
(* The in-memory stores and the tool operations.  w is the record of the   *)
(* module-level stores, the uuid source and the clock; every tool returns  *)
(* the stores after the call and its result mapping.                       *)
(***************************************************************************)
put(db, key, value) ==
  [k \in (DOMAIN db) \cup {key} |-> IF k = key THEN value ELSE db[k]]

ROOM_TYPES ==
  [ CONF_A1 |-> [name |-> "Flight Operations Center", capacity |-> 20],
    CONF_B1 |-> [name |-> "Pilot Briefing Room", capacity |-> 12],
    EXEC_01 |-> [name |-> "Executive Boardroom", capacity |-> 8],
    TRAIN_A |-> [name |-> "Training Room A", capacity |-> 25],
    MAINT_C |-> [name |-> "Maintenance Conference Room", capacity |-> 15],
    ATC_BR  |-> [name |-> "ATC Briefing Room", capacity |-> 10] ]

INVENTORY_ITEMS ==
  [ ENG_PART_001 |-> [name |-> "Turbine Blade Set", category |-> "Engine",
                      current_stock |-> 15, min_stock |-> 5],
    LAND_GEAR_01 |-> [name |-> "Landing Gear Assembly", category |-> "Landing System",
                      current_stock |-> 3, min_stock |-> 2],
    AVIONICS_A1  |-> [name |-> "Navigation Computer", category |-> "Avionics",
                      current_stock |-> 8, min_stock |-> 3],
    HYDRAULIC_P1 |-> [name |-> "Hydraulic Pump", category |-> "Hydraulics",
                      current_stock |-> 12, min_stock |-> 4],
    BRAKE_DISC_1 |-> [name |-> "Carbon Brake Disc", category |-> "Braking System",
                      current_stock |-> 20, min_stock |-> 8] ]

SUPPLIERS ==
  [ SUP_001 |-> [name |-> "AeroTech Industries", status |-> "active",
                 rating |-> "A", location |-> "Seattle, WA"],
    SUP_002 |-> [name |-> "Aviation Parts Direct", status |-> "active",
                 rating |-> "B+", location |-> "Miami, FL"],
    SUP_003 |-> [name |-> "Global Aviation Supply", status |-> "pending",
                 rating |-> "A-", location |-> "Dallas, TX"] ]

\* inventory_db and supplier_db are copies no tool writes
inventory_db == INVENTORY_ITEMS

supplier_db == SUPPLIERS

create_employee_record(employee_data, w) ==
  LET employee_id == employee_data.employee_id
      employee == [employee_id |-> employee_id,
                   name |-> employee_data.name,
                   position |-> employee_data.position,
                   department |-> employee_data.department,
                   hire_date |-> employee_data.hire_date,
                   certifications |-> employee_data.certifications,
                   status |-> "active",
                   created_at |-> w.clock]
  IN [w |-> [w EXCEPT !.employees_db = put(@, employee_id, employee)],
      result |-> [status |-> "success",
                  message |-> <<"Employee ", employee.name, " created successfully">>,
                  employee_id |-> employee_id,
                  details |-> employee]]

\* the training is answered but not appended to trainings_db
schedule_training_not_stored(training_data, w) ==
  LET training_id == prefixed("TRN_", first8(uuid4(w.uuid_counter)))
  IN [w |-> [w EXCEPT !.uuid_counter = @ + 1],
      result |-> [status |-> "success",
                  message |-> <<"Training scheduled successfully">>,
                  training_id |-> training_id,
                  details |-> training_data]]

\* the list of the employee is replaced, not appended to
schedule_training_overwrites(training_data, w) ==
  LET training_id == prefixed("TRN_", first8(uuid4(w.uuid_counter)))
      employee_id == training_data.employee_id
      training == [training_id |-> training_id,
                   employee_id |-> employee_id,
                   training_type |-> training_data.training_type,
                   scheduled_date |-> training_data.scheduled_date,
                   instructor |-> training_data.instructor,
                   duration_hours |-> training_data.duration_hours,
                   status |-> "scheduled",
                   created_at |-> w.clock]
  IN [w |-> [w EXCEPT !.uuid_counter = @ + 1,
                      !.trainings_db = put(@, employee_id, <<training>>)],
      result |-> [status |-> "success",
                  message |-> <<"Training scheduled successfully">>,
                  training_id |-> training_id,
                  details |-> training]]

schedule_training(training_data, w) ==
  LET training_id == prefixed("TRN_", first8(uuid4(w.uuid_counter)))
      employee_id == training_data.employee_id
      training == [training_id |-> training_id,
                   employee_id |-> employee_id,
                   training_type |-> training_data.training_type,
                   scheduled_date |-> training_data.scheduled_date,
                   instructor |-> training_data.instructor,
                   duration_hours |-> training_data.duration_hours,
                   status |-> "scheduled",
                   created_at |-> w.clock]
      existing == IF employee_id \in DOMAIN w.trainings_db
                  THEN w.trainings_db[employee_id] ELSE <<>>
  IN [w |-> [w EXCEPT !.uuid_counter = @ + 1,
                      !.trainings_db = put(@, employee_id, Append(existing, training))],
      result |-> [status |-> "success",
                  message |-> <<"Training scheduled successfully">>,
                  training_id |-> training_id,
                  details |-> training]]

track_certification(cert_data, w) ==
  LET cert_id == prefixed("CERT_", first8(uuid4(w.uuid_counter)))
      employee_id == cert_data.employee_id
      certification == [certification_id |-> cert_id,
                        employee_id |-> employee_id,
                        certification_type |-> cert_data.certification_type,
                        certification_number |-> cert_data.certification_number,
                        issue_date |-> cert_data.issue_date,
                        expiry_date |-> cert_data.expiry_date,
                        status |-> cert_data.status,
                        created_at |-> w.clock]
      existing == IF employee_id \in DOMAIN w.certifications_db
                  THEN w.certifications_db[employee_id] ELSE <<>>
  IN [w |-> [w EXCEPT !.uuid_counter = @ + 1,
                      !.certifications_db =
                          put(@, employee_id, Append(existing, certification))],
      result |-> [status |-> "success",
                  message |-> <<"Certification tracked successfully">>,
                  certification_id |-> cert_id,
                  details |-> certification]]

\* sum(len(v) for v in db.values())
RECURSIVE sum_len(_, _)
sum_len(db, keys) ==
  IF keys = {} THEN 0
  ELSE LET k == CHOOSE x \in keys : TRUE
       IN Len(db[k]) + sum_len(db, keys \ {k})

total_len(db) == sum_len(db, DOMAIN db)

is_active(e) == e.status = "active"

\* hire_date > now - 30 days: the hire dates the executor passes are the
\* fixed 2024-01-01, more than 30 days before any run
is_recent_hire(e) == FALSE

generate_hr_report(report_data, w) ==
  LET report_type == report_data.report_type
      report_id == prefixed("RPT_", first8(uuid4(w.uuid_counter)))
      report_content ==
        IF report_type = "employee_summary"
        THEN [total_employees |-> Cardinality(DOMAIN w.employees_db),
              active_employees |-> Cardinality({k \in DOMAIN w.employees_db : is_active(w.employees_db[k])}),
              departments |-> {w.employees_db[k].department : k \in DOMAIN w.employees_db},
              recent_hires |-> {k \in DOMAIN w.employees_db :
                                  is_recent_hire(w.employees_db[k])}]
        ELSE [message |-> <<"Report type '", report_type, "' generated">>,
              data |-> [employees |-> Cardinality(DOMAIN w.employees_db),
                        certifications |-> total_len(w.certifications_db),
                        trainings |-> total_len(w.trainings_db)]]
  IN [w |-> [w EXCEPT !.uuid_counter = @ + 1],
      result |-> [status |-> "success",
                  message |-> <<"HR report generated successfully">>,
                  report_id |-> report_id,
                  report_type |-> report_type,
                  content |-> report_content,
                  generated_at |-> w.clock]]

is_confirmed(b) == b.status = "confirmed"

is_cancelled(b) == b.status = "cancelled"

room_name(room_id) ==
  IF room_id \in DOMAIN ROOM_TYPES THEN ROOM_TYPES[room_id].name ELSE "Unknown Room"

book_meeting_room(booking_data, w) ==
  LET booking_id == prefixed("BOOK_", first8(uuid4(w.uuid_counter)))
      room_id == booking_data.room_id
      booking == [booking_id |-> booking_id,
                  room_id |-> room_id,
                  room_name |-> room_name(room_id),
                  meeting_title |-> booking_data.meeting_title,
                  organizer |-> booking_data.organizer,
                  start_time |-> booking_data.start_time,
                  end_time |-> booking_data.end_time,
                  attendees |-> booking_data.attendees,
                  equipment_needed |-> booking_data.equipment_needed,
                  status |-> "confirmed",
                  created_at |-> w.clock]
  IN [w |-> [w EXCEPT !.uuid_counter = @ + 1,
                      !.bookings_db = put(@, booking_id, booking)],
      result |-> [status |-> "success",
                  message |-> <<"Room ", room_id, " booked successfully">>,
                  booking_id |-> booking_id,
                  details |-> booking]]

available_slots ==
  << [start |-> "09:00", end |-> "10:00", status |-> "available"],
     [start |-> "10:00", end |-> "11:00", status |-> "booked"],
     [start |-> "11:00", end |-> "12:00", status |-> "available"],
     [start |-> "14:00", end |-> "15:00", status |-> "available"],
     [start |-> "15:00", end |-> "16:00", status |-> "available"],
     [start |-> "16:00", end |-> "17:00", status |-> "maintenance"] >>

\* the date asked for is ignored: the check is made for the current date
check_room_availability_today(availability_data, w) ==
  LET room_id == availability_data.room_id
  IN [w |-> w,
      result |-> [status |-> "success",
                  message |-> <<"Availability checked for room ", room_id>>,
                  room_id |-> room_id,
                  room_name |-> room_name(room_id),
                  date |-> w.clock,
                  availability |-> available_slots,
                  total_available_slots |->
                      Cardinality({i \in 1..Len(available_slots) :
                                     available_slots[i].status = "available"})]]

check_room_availability(availability_data, w) ==
  LET room_id == availability_data.room_id
      check_date == availability_data.date
  IN [w |-> w,
      result |-> [status |-> "success",
                  message |-> <<"Availability checked for room ", room_id>>,
                  room_id |-> room_id,
                  room_name |-> room_name(room_id),
                  date |-> check_date,
                  availability |-> available_slots,
                  total_available_slots |->
                      Cardinality({i \in 1..Len(available_slots) :
                                     available_slots[i].status = "available"})]]

\* a cancelled booking is taken out of the store
cancel_booking_removes(cancel_data, w) ==
  LET booking_id == cancel_data.booking_id
  IN IF booking_id \in DOMAIN w.bookings_db
     THEN [w |-> [w EXCEPT !.bookings_db =
                    [k \in (DOMAIN @) \ {booking_id} |-> @[k]]],
           result |-> [status |-> "success",
                       message |-> <<"Booking ", booking_id, " cancelled successfully">>,
                       booking_id |-> booking_id,
                       details |-> put(w.bookings_db[booking_id], "status", "cancelled")]]
     ELSE [w |-> w,
           result |-> [status |-> "error",
                       message |-> <<"Booking ", booking_id, " not found">>]]

cancel_booking(cancel_data, w) ==
  LET booking_id == cancel_data.booking_id
      reason == cancel_data.reason
  IN IF booking_id \in DOMAIN w.bookings_db
     THEN LET booking ==
                put(put(put(w.bookings_db[booking_id], "status", "cancelled"),
                        "cancellation_reason", reason),
                    "cancelled_at", w.clock)
          IN [w |-> [w EXCEPT !.bookings_db = put(@, booking_id, booking)],
              result |-> [status |-> "success",
                          message |-> <<"Booking ", booking_id, " cancelled successfully">>,
                          booking_id |-> booking_id,
                          details |-> booking]]
     ELSE [w |-> w,
           result |-> [status |-> "error",
                       message |-> <<"Booking ", booking_id, " not found">>]]

generate_meeting_report(report_data, w) ==
  LET report_type == report_data.report_type
      report_id == prefixed("RPT_", first8(uuid4(w.uuid_counter)))
      report_content ==
        IF report_type = "room_utilization"
        THEN [total_rooms |-> Cardinality(DOMAIN ROOM_TYPES),
              total_bookings |-> Cardinality(DOMAIN w.bookings_db),
              active_bookings |-> Cardinality({k \in DOMAIN w.bookings_db : is_confirmed(w.bookings_db[k])}),
              cancelled_bookings |-> Cardinality({k \in DOMAIN w.bookings_db : is_cancelled(w.bookings_db[k])}),
              room_details |-> ROOM_TYPES,
              utilization_rate |-> "85%"]
        ELSE [message |-> <<"Report type '", report_type, "' generated">>,
              data |-> [rooms |-> Cardinality(DOMAIN ROOM_TYPES),
                        bookings |-> Cardinality(DOMAIN w.bookings_db)]]
  IN [w |-> [w EXCEPT !.uuid_counter = @ + 1],
      result |-> [status |-> "success",
                  message |-> <<"Meeting report generated successfully">>,
                  report_id |-> report_id,
                  report_type |-> report_type,
                  content |-> report_content,
                  generated_at |-> w.clock]]

\* an unknown part is reported in the status of the result itself
track_inventory_status_not_found(inventory_data, w) ==
  LET part_number == inventory_data.part_number
  IN IF part_number \in DOMAIN INVENTORY_ITEMS
     THEN [w |-> w,
           result |-> [status |-> "success",
                       message |-> <<"Inventory tracked for part ", part_number>>,
                       details |-> [part_number |-> part_number]]]
     ELSE [w |-> w,
           result |-> [status |-> "not_found",
                       message |-> <<"Part ", part_number, " not found in inventory">>]]

track_inventory(inventory_data, w) ==
  LET part_number == inventory_data.part_number
      location == inventory_data.location
      result ==
        IF part_number \in DOMAIN inventory_db
        THEN LET item == inventory_db[part_number]
             IN [part_number |-> part_number,
                 part_name |-> item.name,
                 category |-> item.category,
                 current_stock |-> item.current_stock,
                 minimum_stock |-> item.min_stock,
                 location |-> location,
                 stock_status |-> IF item.current_stock > item.min_stock
                                  THEN "normal" ELSE "low",
                 reorder_needed |-> item.current_stock <= item.min_stock]
        ELSE [part_number |-> part_number,
              status |-> "not_found",
              message |-> <<"Part ", part_number, " not found in inventory">>]
  IN [w |-> w,
      result |-> [status |-> "success",
                  message |-> <<"Inventory tracked for part ", part_number>>,
                  details |-> result]]

order_parts(order_data, w) ==
  LET order_id == prefixed("ORDER_", first8(uuid4(w.uuid_counter)))
      part_number == order_data.part_number
      quantity == order_data.quantity
      supplier_id == order_data.supplier_id
      order == [order_id |-> order_id,
                part_number |-> part_number,
                part_name |-> IF part_number \in DOMAIN inventory_db
                              THEN inventory_db[part_number].name ELSE "Unknown Part",
                quantity |-> quantity,
                supplier_id |-> supplier_id,
                supplier_name |-> IF supplier_id \in DOMAIN supplier_db
                                  THEN supplier_db[supplier_id].name
                                  ELSE "Unknown Supplier",
                priority |-> order_data.priority,
                delivery_date |-> order_data.delivery_date,
                cost_center |-> order_data.cost_center,
                estimated_cost |-> quantity * 1500,
                status |-> "pending",
                created_at |-> w.clock]
  IN [w |-> [w EXCEPT !.uuid_counter = @ + 1,
                      !.orders_db = put(@, order_id, order)],
      result |-> [status |-> "success",
                  message |-> <<"Order placed successfully">>,
                  order_id |-> order_id,
                  details |-> order]]

\* the supplier check leaves a note in the bookings of the Meeting domain
check_supplier_status_notes_booking(supplier_data, w) ==
  [w |-> [w EXCEPT !.bookings_db =
            put(@, prefixed("SUP_", 0), [status |-> "confirmed"])],
   result |-> [status |-> "success",
               message |-> <<"Supplier status checked for ", supplier_data.supplier_id>>,
               details |-> [supplier_id |-> supplier_data.supplier_id]]]

check_supplier_status(supplier_data, w) ==
  LET supplier_id == supplier_data.supplier_id
      result ==
        IF supplier_id \in DOMAIN supplier_db
        THEN LET supplier == supplier_db[supplier_id]
             IN [supplier_id |-> supplier_id,
                 supplier_name |-> supplier.name,
                 status |-> supplier.status,
                 rating |-> supplier.rating,
                 location |-> supplier.location,
                 active_orders |->
                     Cardinality({k \in DOMAIN w.orders_db :
                                    w.orders_db[k].supplier_id = supplier_id}),
                 last_delivery |-> "2024-01-15",
                 on_time_performance |-> "92%"]
        ELSE [supplier_id |-> supplier_id,
              status |-> "not_found",
              message |-> <<"Supplier ", supplier_id, " not found">>]
  IN [w |-> w,
      result |-> [status |-> "success",
                  message |-> <<"Supplier status checked for ", supplier_id>>,
                  details |-> result]]

is_pending(o) == o.status = "pending"

generate_inventory_report(report_data, w) ==
  LET report_type == report_data.report_type
      report_id == prefixed("RPT_", first8(uuid4(w.uuid_counter)))
      low_stock_items ==
        {[part_number |-> part_id,
          name |-> inventory_db[part_id].name,
          current_stock |-> inventory_db[part_id].current_stock,
          minimum_stock |-> inventory_db[part_id].min_stock,
          shortage |-> inventory_db[part_id].min_stock
                         - inventory_db[part_id].current_stock] :
            part_id \in {p \in DOMAIN inventory_db :
                           inventory_db[p].current_stock <= inventory_db[p].min_stock}}
      report_content ==
        IF report_type = "low_stock_alert"
        THEN [total_parts |-> Cardinality(DOMAIN inventory_db),
              low_stock_items |-> low_stock_items,
              low_stock_count |-> Cardinality(low_stock_items),
              total_orders |-> Cardinality(DOMAIN w.orders_db),
              pending_orders |-> Cardinality({k \in DOMAIN w.orders_db : is_pending(w.orders_db[k])})]
        ELSE [message |-> <<"Report type '", report_type, "' generated">>,
              data |-> [inventory_items |-> Cardinality(DOMAIN inventory_db),
                        suppliers |-> Cardinality(DOMAIN supplier_db),
                        orders |-> Cardinality(DOMAIN w.orders_db)]]
  IN [w |-> [w EXCEPT !.uuid_counter = @ + 1],
      result |-> [status |-> "success",
                  message |-> <<"Supply chain report generated successfully">>,
                  report_id |-> report_id,
                  report_type |-> report_type,
                  content |-> report_content,
                  generated_at |-> w.clock]]

(***************************************************************************)
(* Response text.  A text is the sequence of its segments: literal text,   *)
(* the completion obtained for a prompt, the demo-mode fallback, the       *)
(* rendering of one tool result, the text of an embedded response.         *)
(***************************************************************************)
tool_name_chars ==
  [ create_employee_record |->
      <<"c","r","e","a","t","e","_","e","m","p","l","o","y","e","e","_","r","e","c","o","r","d">>,
    schedule_training |->
      <<"s","c","h","e","d","u","l","e","_","t","r","a","i","n","i","n","g">>,
    track_certification |->
      <<"t","r","a","c","k","_","c","e","r","t","i","f","i","c","a","t","i","o","n">>,
    generate_hr_report |->
      <<"g","e","n","e","r","a","t","e","_","h","r","_","r","e","p","o","r","t">>,
    book_meeting_room |->
      <<"b","o","o","k","_","m","e","e","t","i","n","g","_","r","o","o","m">>,
    check_room_availability |->
      <<"c","h","e","c","k","_","r","o","o","m","_","a","v","a","i","l","a","b","i","l","i","t","y">>,
    cancel_booking |->
      <<"c","a","n","c","e","l","_","b","o","o","k","i","n","g">>,
    generate_meeting_report |->
      <<"g","e","n","e","r","a","t","e","_","m","e","e","t","i","n","g","_","r","e","p","o","r","t">>,
    track_inventory |->
      <<"t","r","a","c","k","_","i","n","v","e","n","t","o","r","y">>,
    order_parts |->
      <<"o","r","d","e","r","_","p","a","r","t","s">>,
    check_supplier_status |->
      <<"c","h","e","c","k","_","s","u","p","p","l","i","e","r","_","s","t","a","t","u","s">>,
    generate_inventory_report |->
      <<"g","e","n","e","r","a","t","e","_","i","n","v","e","n","t","o","r","y","_","r","e","p","o","r","t">> ]

upper_char(c) ==
  IF \E i \in 1..Len(LowerChars) : LowerChars[i] = c
  THEN UpperChars[CHOOSE i \in 1..Len(LowerChars) : LowerChars[i] = c]
  ELSE c

is_alpha(c) ==
  \E i \in 1..Len(LowerChars) : LowerChars[i] = c \/ UpperChars[i] = c

\* s.replace(old, new) for one-character old and new
replace(s, old, new) == [i \in 1..Len(s) |-> IF s[i] = old THEN new ELSE s[i]]

\* s.title()
title(s) ==
  [i \in 1..Len(s) |->
     IF i = 1 \/ ~is_alpha(s[i - 1]) THEN upper_char(s[i]) ELSE lower_char(s[i])]

Text(s) == [seg |-> "text", text |-> s]

UserMessage(message) == <<[seg |-> "user_message", message |-> message]>>

\* str(e) of an exception, named by the place that raised it
Exception(where) == <<[seg |-> "exception", raised_by |-> where]>>

(***************************************************************************)
(* The completion capability behind _call_llm.  A call ends in one of      *)
(* three ways: the model answers ("ok"), the model is unavailable and the  *)
(* call degrades to the demo-mode string ("unavailable"), or an exception  *)
(* escapes the call ("raise").                                             *)
(***************************************************************************)
LlmOutcomes == {"ok", "unavailable", "raise"}

call_llm(agent_type, prompt, outcome) ==
  IF outcome = "ok"
  THEN <<[seg |-> "completion", agent |-> agent_type, prompt |-> prompt]>>
  ELSE <<[seg |-> "demo_mode", agent |-> agent_type, received |-> prompt]>>

(***************************************************************************)
(* Domain executors: tool detection and response merge.                    *)
(***************************************************************************)
record_tool(acc, tool, out) ==
  [acc EXCEPT !.w = out.w,
              !.tool_results = Append(@, [tool |-> tool, result |-> out.result])]

\* the except branch of the try around all the tool checks: one "error"
\* entry, and the checks after the raising call are not reached
tool_failed(acc, tool) ==
  [acc EXCEPT !.raised = TRUE,
              !.tool_results =
                 Append(@, [tool |-> "error",
                            result |-> <<Text("Tool execution failed: ")>>
                                         \o Exception(tool)])]

\* await tool(...): its result is appended, or the call raises (raising is
\* the set of tool operations made to raise)
call_tool(acc, tool, out, raising) ==
  IF tool \in raising THEN tool_failed(acc, tool) ELSE record_tool(acc, tool, out)

process_hr_tools(user_message, context, w0, raising) ==
  LET message_lower == lower(user_message)
      employee_id == prefixed("EMP_", task_id_first8(context.task_id))
      a0 == [w |-> w0, tool_results |-> <<>>, raised |-> FALSE]
      a1 == IF ~a0.raised /\ any_keyword(hr_tool_keywords[1].keywords, message_lower)
            THEN call_tool(a0, "create_employee_record",
                   create_employee_record(
                     [name |-> "Sample Employee",
                      employee_id |-> employee_id,
                      position |-> "Aviation Specialist",
                      department |-> "Operations",
                      hire_date |-> "2024-01-01",
                      certifications |-> <<>>], a0.w), raising)
            ELSE a0
      a2 == IF ~a1.raised /\ any_keyword(hr_tool_keywords[2].keywords, message_lower)
            THEN call_tool(a1, "schedule_training",
                   schedule_training(
                     [employee_id |-> employee_id,
                      training_type |-> "Safety Training",
                      scheduled_date |-> "2024-02-01",
                      instructor |-> "Safety Officer",
                      duration_hours |-> 8], a1.w), raising)
            ELSE a1
      a3 == IF ~a2.raised /\ any_keyword(hr_tool_keywords[3].keywords, message_lower)
            THEN call_tool(a2, "track_certification",
                   track_certification(
                     [employee_id |-> employee_id,
                      certification_type |-> "Pilot License",
                      certification_number |-> "PPL123456",
                      issue_date |-> "2023-01-01",
                      expiry_date |-> "2025-01-01",
                      status |-> "active"], a2.w), raising)
            ELSE a2
      a4 == IF ~a3.raised /\ any_keyword(hr_tool_keywords[4].keywords, message_lower)
            THEN call_tool(a3, "generate_hr_report",
                   generate_hr_report(
                     [report_type |-> "employee_summary",
                      department |-> "Operations",
                      date_range |-> "2024-01-01_2024-12-31"], a3.w), raising)
            ELSE a3
  IN a4

process_meeting_tools(user_message, context, w0, raising) ==
  LET message_lower == lower(user_message)
      a0 == [w |-> w0, tool_results |-> <<>>, raised |-> FALSE]
      a1 == IF ~a0.raised /\ any_keyword(meeting_tool_keywords[1].keywords, message_lower)
            THEN call_tool(a0, "book_meeting_room",
                   book_meeting_room(
                     [room_id |-> "CONF_A1",
                      meeting_title |-> "Aviation Team Meeting",
                      organizer |-> context.user_id,
                      start_time |-> "2024-02-01T10:00:00",
                      end_time |-> "2024-02-01T11:00:00",
                      attendees |-> <<"team@aviation.com">>,
                      equipment_needed |-> <<"projector", "conference_phone">>], a0.w), raising)
            ELSE a0
      a2 == IF ~a1.raised /\ any_keyword(meeting_tool_keywords[2].keywords, message_lower)
            THEN call_tool(a1, "check_room_availability",
                   check_room_availability(
                     [room_id |-> "CONF_A1",
                      date |-> "2024-02-01",
                      start_time |-> "09:00",
                      end_time |-> "17:00"], a1.w), raising)
            ELSE a1
      a3 == IF ~a2.raised /\ any_keyword(meeting_tool_keywords[3].keywords, message_lower)
            THEN call_tool(a2, "cancel_booking",
                   cancel_booking(
                     [booking_id |-> prefixed("BOOK_", task_id_first8(context.task_id)),
                      reason |-> "User requested cancellation",
                      cancelled_by |-> context.user_id], a2.w), raising)
            ELSE a2
      a4 == IF ~a3.raised /\ any_keyword(meeting_tool_keywords[4].keywords, message_lower)
            THEN call_tool(a3, "generate_meeting_report",
                   generate_meeting_report(
                     [report_type |-> "room_utilization",
                      date_range |-> "2024-01-01_2024-01-31",
                      room_filter |-> "all"], a3.w), raising)
            ELSE a3
  IN a4

process_supply_chain_tools(user_message, context, w0, raising) ==
  LET message_lower == lower(user_message)
      a0 == [w |-> w0, tool_results |-> <<>>, raised |-> FALSE]
      a1 == IF ~a0.raised /\ any_keyword(supply_chain_tool_keywords[1].keywords, message_lower)
            THEN call_tool(a0, "track_inventory",
                   track_inventory(
                     [part_number |-> "ENG_PART_001",
                      location |-> "Main Warehouse",
                      check_type |-> "current_stock"], a0.w), raising)
            ELSE a0
      a2 == IF ~a1.raised /\ any_keyword(supply_chain_tool_keywords[2].keywords, message_lower)
            THEN call_tool(a1, "order_parts",
                   order_parts(
                     [part_number |-> "ENG_PART_001",
                      quantity |-> 5,
                      supplier_id |-> "SUP_001",
                      priority |-> "normal",
                      delivery_date |-> "2024-02-15",
                      cost_center |-> "Maintenance"], a1.w), raising)
            ELSE a1
      a3 == IF ~a2.raised /\ any_keyword(supply_chain_tool_keywords[3].keywords, message_lower)
            THEN call_tool(a2, "check_supplier_status",
                   check_supplier_status(
                     [supplier_id |-> "SUP_001",
                      check_type |-> "full_status"], a2.w), raising)
            ELSE a2
      a4 == IF ~a3.raised /\ any_keyword(supply_chain_tool_keywords[4].keywords, message_lower)
            THEN call_tool(a3, "generate_inventory_report",
                   generate_inventory_report(
                     [report_type |-> "low_stock_alert",
                      date_range |-> "2024-01-01_2024-01-31",
                      location_filter |-> "all"], a3.w), raising)
            ELSE a3
  IN a4

process_tools(agent, user_message, context, w, raising) ==
  CASE agent = "hr" -> process_hr_tools(user_message, context, w, raising)
    [] agent = "meeting" -> process_meeting_tools(user_message, context, w, raising)
    [] agent = "supply_chain" ->
         process_supply_chain_tools(user_message, context, w, raising)

\* one rendered tool result: the heading and one line per result field
tool_section(tool_result) ==
  IF tool_result.tool # "error"
  THEN [seg |-> "tool",
        heading |-> title(replace(tool_name_chars[tool_result.tool], "_", " ")),
        fields |-> tool_result.result]
  ELSE [seg |-> "tool_error", error |-> tool_result.result]

\* the sections are listed last tool first
tool_sections_reversed(tool_results) ==
  [i \in 1..Len(tool_results) |->
     tool_section(tool_results[Len(tool_results) + 1 - i])]

tool_sections(tool_results) ==
  [i \in 1..Len(tool_results) |-> tool_section(tool_results[i])]

\* the completion text is dropped once a tool has fired
combine_responses_tools_only(section_header, llm_response, tool_results) ==
  IF tool_results = <<>> THEN llm_response
  ELSE <<Text(section_header)>> \o tool_sections(tool_results)

combine_responses(section_header, llm_response, tool_results) ==
  IF tool_results = <<>> THEN llm_response
  ELSE llm_response \o <<Text("\n\n"), Text(section_header)>>
         \o tool_sections(tool_results)

hr_combine_responses(llm_response, tool_results) ==
  combine_responses("## HR System Actions Performed:\n\n", llm_response, tool_results)

meeting_combine_responses(llm_response, tool_results) ==
  combine_responses("## Meeting System Actions Performed:\n\n", llm_response, tool_results)

supply_chain_combine_responses(llm_response, tool_results) ==
  combine_responses("## Supply Chain System Actions Performed:\n\n", llm_response,
                    tool_results)

agent_combine_responses(agent, llm_response, tool_results) ==
  CASE agent = "hr" -> hr_combine_responses(llm_response, tool_results)
    [] agent = "meeting" -> meeting_combine_responses(llm_response, tool_results)
    [] agent = "supply_chain" ->
         supply_chain_combine_responses(llm_response, tool_results)

artifact_type_of(agent) ==
  CASE agent = "hr" -> "hr_response"
    [] agent = "meeting" -> "meeting_response"
    [] agent = "supply_chain" -> "supply_chain_response"

(***************************************************************************)
(* State.                                                                  *)
(***************************************************************************)
VARIABLES
  requests,          \* the chat requests the clients send, in order
  submitted,         \* how many of them chat_endpoint has taken
  tasks,             \* tasks[r][a]: TaskUpdater and position of agent a's execute
  orch,              \* orch[r]: locals of the Orchestrator's execute_task
  responses,         \* responses[r]: what chat_endpoint answered
  employees_db,
  certifications_db,
  trainings_db,
  bookings_db,
  orders_db,
  uuid_counter,      \* uuid4(): the next fresh uuid
  clock,             \* datetime.now()
  tool_calls,        \* the tool operations called directly, with their results
  agents,            \* AgentManager.agents: the registered agent types, in insertion order
  last_route         \* the last call of AgentManager.route_message and its outcome

stores == <<employees_db, certifications_db, trainings_db, bookings_db, orders_db>>

vars == <<requests, submitted, tasks, orch, responses, employees_db,
          certifications_db, trainings_db, bookings_db, orders_db,
          uuid_counter, clock, tool_calls, agents, last_route>>

Agents == Domains \cup {"orchestrator"}

AGENT_REGISTRY == Agents

Tenants == {"default", "acme"}

Requests == 1..Len(requests)

World ==
  [employees_db |-> employees_db,
   certifications_db |-> certifications_db,
   trainings_db |-> trainings_db,
   bookings_db |-> bookings_db,
   orders_db |-> orders_db,
   uuid_counter |-> uuid_counter,
   clock |-> clock]

SetWorld(w) ==
  /\ employees_db' = w.employees_db
  /\ certifications_db' = w.certifications_db
  /\ trainings_db' = w.trainings_db
  /\ bookings_db' = w.bookings_db
  /\ orders_db' = w.orders_db
  /\ uuid_counter' = w.uuid_counter
  /\ clock' = w.clock

(***************************************************************************)
(* RequestContext, TaskUpdater and the result of execute.                  *)
(***************************************************************************)
RequestContext(task_id, context_id, user_message, tenant_id, user_id) ==
  [task_id |-> task_id, context_id |-> context_id, user_message |-> user_message,
   tenant_id |-> tenant_id, user_id |-> user_id]

NoContext ==
  RequestContext([uuid |-> uuid4(0), suffix |-> <<>>], uuid4(0), <<>>, "", "")

NoTask ==
  [pc |-> "none", context |-> NoContext, state |-> "none", progress |-> 0,
   log |-> <<>>, artifacts |-> <<>>, error |-> <<>>, exception |-> <<>>,
   llm_calls |-> <<>>,
   fault |-> "none", raising |-> {}]

NewTask(context) ==
  [NoTask EXCEPT !.pc = "created", !.context = context, !.state = "pending",
                 !.log = <<[state |-> "pending", progress |-> 0]>>]

update_status(task, state, progress) ==
  [task EXCEPT !.state = state, !.progress = progress,
               !.log = Append(@, [state |-> state, progress |-> progress])]

add_artifact(task, content, artifact_type, metadata) ==
  [task EXCEPT !.artifacts =
     Append(@, [content |-> content, type |-> artifact_type, metadata |-> metadata,
                recorded_in |-> task.state, recorded_at |-> task.progress])]

complete(task) == update_status(task, "completed", 100)

fail(task, error) == [update_status(task, "failed", task.progress) EXCEPT !.error = error]

\* the mapping execute returns for a task that ran to its end
execute_result(agent, task) ==
  [task_id |-> task.context.task_id, agent_name |-> agent,
   status |-> task.state, artifacts |-> task.artifacts, error |-> task.error]

(***************************************************************************)
(* Orchestrator: fan-out, fan-in and synthesis.                            *)
(***************************************************************************)
agent_name_chars ==
  [ hr |-> <<"h","r">>,
    meeting |-> <<"m","e","e","t","i","n","g">>,
    supply_chain |-> <<"s","u","p","p","l","y","_","c","h","a","i","n">>,
    orchestrator |-> <<"o","r","c","h","e","s","t","r","a","t","o","r">> ]

\* a value held in an agent response's "result": the mapping execute
\* returned, or the text made from an exception
Dict(value) == [kind |-> "dict", value |-> value]

Str(content) == [kind |-> "str", value |-> content]

agent_context(context, agent) ==
  RequestContext(sub_task_id(context.task_id, agent), context.context_id,
                 context.user_message, context.tenant_id, context.user_id)

\* the message of the exception is not kept in the result
agent_response_without_message(agent, task) ==
  IF task.pc = "returned"
  THEN [agent |-> agent, result |-> Dict(execute_result(agent, task)),
        status |-> "success"]
  ELSE [agent |-> agent,
        result |-> Str(<<Text("Agent execution failed")>>),
        status |-> "error"]

\* what awaiting one sub-agent adds to the results list
agent_response(agent, task) ==
  IF task.pc = "returned"
  THEN [agent |-> agent, result |-> Dict(execute_result(agent, task)),
        status |-> "success"]
  ELSE [agent |-> agent,
        result |-> Str(<<Text("Agent execution failed: ")>> \o task.exception),
        status |-> "error"]

general_response(context, response) ==
  [agent |-> "orchestrator",
   result |-> Dict([task_id |-> context.task_id, agent_name |-> "Orchestrator",
                    status |-> "completed",
                    artifacts |-> <<[content |-> response,
                                     type |-> "general_response"]>>]),
   status |-> "success"]

general_failure(error) ==
  [agent |-> "orchestrator",
   result |-> Str(<<Text("General query failed: ")>> \o error),
   status |-> "error"]

\* the content read from one response's result
response_content(response_data) ==
  IF response_data.kind = "dict" /\ "artifacts" \in DOMAIN response_data.value
  THEN response_data.value.artifacts[1].content
  ELSE response_data.value

\* response_data["artifacts"][0] of an empty list raises IndexError
content_raises(response_data) ==
  /\ response_data.kind = "dict"
  /\ "artifacts" \in DOMAIN response_data.value
  /\ response_data.value.artifacts = <<>>

\* the status of the response is not looked at: no placeholder
prompt_section_no_placeholder(response) ==
  [seg |-> "agent_response",
   agent |-> title(agent_name_chars[response.agent]),
   content |-> response_content(response.result)]

prompt_section(response) ==
  IF response.status = "success"
  THEN [seg |-> "agent_response",
        agent |-> title(agent_name_chars[response.agent]),
        content |-> response_content(response.result)]
  ELSE [seg |-> "agent_failed",
        agent |-> title(agent_name_chars[response.agent]),
        text |-> "Failed to process request"]

synthesis_prompt(agent_responses, user_message) ==
  <<Text("Based on the user query: ")>> \o UserMessage(user_message)
    \o <<Text("The following specialized agents have provided responses:")>>
    \o [i \in 1..Len(agent_responses) |-> prompt_section(agent_responses[i])]
    \o <<Text("Please synthesize these responses into a single, coherent response")>>

\* _synthesize_responses reads the content of the single response, or of
\* every response with status "success" while it builds the prompt, outside
\* its try
synthesis_raises(agent_responses) ==
  IF Len(agent_responses) = 1
  THEN content_raises(agent_responses[1].result)
  ELSE \E i \in 1..Len(agent_responses) :
         /\ agent_responses[i].status = "success"
         /\ content_raises(agent_responses[i].result)

\* the status of the responses is not looked at in the fallback
fallback_sections_any_status(agent_responses, i) ==
  [k \in 1..(Len(agent_responses) + 1 - i) |->
     [seg |-> "agent_heading",
      agent |-> title(agent_name_chars[agent_responses[k + i - 1].agent]),
      content |-> response_content(agent_responses[k + i - 1].result)]]

RECURSIVE fallback_sections(_, _)
fallback_sections(agent_responses, i) ==
  IF i > Len(agent_responses) THEN <<>>
  ELSE (IF agent_responses[i].status = "success"
        THEN <<[seg |-> "agent_heading",
                agent |-> title(agent_name_chars[agent_responses[i].agent]),
                content |-> response_content(agent_responses[i].result)]>>
        ELSE <<>>)
       \o fallback_sections(agent_responses, i + 1)

fallback_response(agent_responses) ==
  <<Text("Here are the responses from our specialized agents:\n\n")>>
    \o fallback_sections(agent_responses, 1)

\* a single response sent through the synthesis call like several
single_response_resynthesized(agent_responses) ==
  call_llm("orchestrator", synthesis_prompt(agent_responses, <<>>), "ok")

\* _synthesize_responses for a single response: no completion call
single_response(agent_responses) == response_content(agent_responses[1].result)

\* _synthesize_responses for several responses, once the completion call ended
synthesized_response(agent_responses, user_message, outcome) ==
  IF outcome = "raise"
  THEN fallback_response(agent_responses)
  ELSE call_llm("orchestrator", synthesis_prompt(agent_responses, user_message), outcome)

\* the tenant of the request is not passed on
orchestrator_metadata_default_tenant(required_agents, context) ==
  [agent_type |-> "orchestrator",
   sub_agents_used |-> agents_of(required_agents),
   tenant_id |-> "default"]

orchestrator_metadata(required_agents, context) ==
  [agent_type |-> "orchestrator",
   sub_agents_used |-> agents_of(required_agents),
   tenant_id |-> context.tenant_id]

\* the final artifact takes the tag of the general path when no agent ran
orchestrator_finish_general_tag(task, final_response, required_agents) ==
  complete(add_artifact(task, final_response,
                        IF required_agents = <<>> THEN "general_response"
                        ELSE "orchestrated_response",
                        orchestrator_metadata(required_agents, task.context)))

\* the task is completed before the final artifact is added
orchestrator_finish_completes_first(task, final_response, required_agents) ==
  add_artifact(complete(task), final_response, "orchestrated_response",
               orchestrator_metadata(required_agents, task.context))

\* execute_task from the final artifact on
orchestrator_finish(task, final_response, required_agents) ==
  complete(add_artifact(task, final_response, "orchestrated_response",
                        orchestrator_metadata(required_agents, task.context)))

NoOrch ==
  [required_agents |-> <<>>, awaiting |-> 0, agent_responses |-> <<>>,
   synthesis_prompt |-> <<>>]

(***************************************************************************)
(* Initial states.  The stores are empty at import, no request is taken.   *)
(***************************************************************************)
ScenarioMessages == {MessageText[name] : name \in DOMAIN MessageText}

ChatRequests ==
  [message : ScenarioMessages, agent_type : AGENT_REGISTRY,
   tenant_id : Tenants, user_id : {"system"}]

NoResponse == [kind |-> "none"]

\* route_message has not been called
NoRoute == [called |-> FALSE]

InitWith(reqs) ==
  /\ requests = reqs
  /\ submitted = 0
  /\ tasks = [r \in 1..Len(reqs) |-> [a \in Agents |-> NoTask]]
  /\ orch = [r \in 1..Len(reqs) |-> NoOrch]
  /\ responses = [r \in 1..Len(reqs) |-> NoResponse]
  /\ employees_db = <<>>
  /\ certifications_db = <<>>
  /\ trainings_db = <<>>
  /\ bookings_db = <<>>
  /\ orders_db = <<>>
  /\ uuid_counter = 1
  /\ clock = 1
  /\ tool_calls = <<>>
  /\ agents = <<>>
  /\ last_route = NoRoute

Init == \E req \in ChatRequests : InitWith(<<req>>)

(***************************************************************************)
(* chat_endpoint.                                                          *)
(***************************************************************************)
\* AGENT_REGISTRY.get(request.agent_type, orchestrator)
agent_executor(request) ==
  IF request.agent_type \in AGENT_REGISTRY THEN request.agent_type ELSE "orchestrator"

Finished(task) == task.pc \in {"returned", "raised"}

\* the request is taken: its context is made and execute begins (PENDING)
Submit(r) ==
  /\ r = submitted + 1
  /\ r \in Requests
  /\ r > 1 => responses[r - 1] # NoResponse
  /\ LET request == requests[r]
         context == RequestContext([uuid |-> uuid4(uuid_counter), suffix |-> <<>>],
                                   uuid4(uuid_counter + 1), request.message,
                                   request.tenant_id, request.user_id)
     IN tasks' = [tasks EXCEPT ![r][agent_executor(request)] = NewTask(context)]
  /\ submitted' = r
  /\ uuid_counter' = uuid_counter + 2
  /\ clock' = clock + 1
  /\ UNCHANGED <<agents, last_route, tool_calls, requests, orch, responses, stores>>

chat_response(request, context, result) ==
  [kind |-> "chat_response",
   response |->
     IF result.status = "completed" /\ result.artifacts # <<>>
     THEN result.artifacts[1].content
     ELSE IF result.status = "failed"
          THEN <<Text("I encountered an error: ")>> \o result.error
          ELSE <<Text("I apologize, but I couldn't process your request.")>>,
   agent_name |-> result.agent_name,
   task_id |-> context.task_id,
   metadata |-> [tenant_id |-> request.tenant_id,
                 agent_type |-> request.agent_type,
                 status |-> result.status,
                 artifacts_count |-> Len(result.artifacts)]]

\* execute returned or raised: the response, or the HTTP 500 of the handler
Respond(r) ==
  /\ r \in Requests
  /\ r <= submitted
  /\ responses[r] = NoResponse
  /\ LET agent == agent_executor(requests[r])
         task == tasks[r][agent]
     IN /\ Finished(task)
        /\ responses' = [responses EXCEPT ![r] =
             IF task.pc = "returned"
             THEN chat_response(requests[r], task.context, execute_result(agent, task))
             ELSE [kind |-> "http_500",
                   detail |-> <<Text("Internal server error: ")>> \o task.exception]]
  /\ UNCHANGED <<agents, last_route, tool_calls, requests, submitted, tasks, orch, stores, uuid_counter, clock>>

(***************************************************************************)
(* Domain executors: execute_task of HR, Meeting and Supply-Chain.         *)
(***************************************************************************)
\* the task starts: WORKING 25%, then the completion call is awaited
ExecStart(r, agent) ==
  /\ r \in Requests
  /\ tasks[r][agent].pc = "created"
  /\ tasks' = [tasks EXCEPT ![r][agent] =
                 [update_status(@, "working", 25) EXCEPT !.pc = "llm"]]
  /\ UNCHANGED <<agents, last_route, tool_calls, requests, submitted, orch, responses, stores, uuid_counter, clock>>

\* task_updater.fail(f"HR task failed: {str(e)}") and its siblings
failure_prefix ==
  [hr |-> "HR task failed: ",
   meeting |-> "Meeting task failed: ",
   supply_chain |-> "Supply chain task failed: ",
   orchestrator |-> "Orchestration failed: "]

\* the exception is logged and raised again, the task is left as it was
executor_except_unmarked(agent, task, e) ==
  [task EXCEPT !.pc = "raised", !.exception = e]

\* the except branch of execute_task: the task is marked FAILED with the
\* message of the exception, which is raised again
executor_except(agent, task, e) ==
  [fail(task, <<Text(failure_prefix[agent])>> \o e)
     EXCEPT !.pc = "raised", !.exception = e]

\* the artifact is added before the 75% checkpoint is reported
executor_finish_artifact_first(agent, task, outcome, tool_results) ==
  LET context == task.context
      llm_response == call_llm(agent, UserMessage(context.user_message), outcome)
      final_response == agent_combine_responses(agent, llm_response, tool_results)
      metadata == [agent_type |-> agent,
                   tools_used |-> Len(tool_results) > 0,
                   tenant_id |-> context.tenant_id]
  IN complete(update_status(
       add_artifact(task, final_response, artifact_type_of(agent), metadata),
       "working", 75))

\* the task is completed without an artifact
executor_finish_no_artifact(agent, task, outcome, tool_results) ==
  complete(update_status(task, "working", 75))

\* the 75% checkpoint is reported after the task was completed
executor_finish_late_checkpoint(agent, task, outcome, tool_results) ==
  LET context == task.context
      llm_response == call_llm(agent, UserMessage(context.user_message), outcome)
      final_response == agent_combine_responses(agent, llm_response, tool_results)
      metadata == [agent_type |-> agent,
                   tools_used |-> Len(tool_results) > 0,
                   tenant_id |-> context.tenant_id]
  IN update_status(complete(add_artifact(task, final_response,
                                         artifact_type_of(agent), metadata)),
                   "working", 75)

\* execute_task from the return of the completion call to the artifact
executor_finish(agent, task, outcome, tool_results) ==
  LET context == task.context
      llm_response == call_llm(agent, UserMessage(context.user_message), outcome)
      working == update_status(task, "working", 75)
      final_response == agent_combine_responses(agent, llm_response, tool_results)
      metadata == [agent_type |-> agent,
                   tools_used |-> Len(tool_results) > 0,
                   tenant_id |-> context.tenant_id]
  IN complete(add_artifact(working, final_response, artifact_type_of(agent), metadata))

\* the completion call returns its text or the demo-mode string: the tools run,
\* WORKING 75%, the responses are merged, the artifact is added, COMPLETED
ExecComplete(r, agent, outcome) ==
  /\ r \in Requests
  /\ outcome \in {"ok", "unavailable"}
  /\ tasks[r][agent].pc = "llm"
  /\ LET task == tasks[r][agent]
         done == process_tools(agent, task.context.user_message,
                               task.context, World, {})
     IN /\ tasks' = [tasks EXCEPT ![r][agent] =
                       [executor_finish(agent, task, outcome, done.tool_results)
                          EXCEPT !.pc = "returned",
                                 !.llm_calls = Append(@, outcome)]]
        /\ SetWorld(done.w)
  /\ UNCHANGED <<agents, last_route, tool_calls, requests, submitted, orch, responses>>

\* an exception escapes the completion call: the handler marks the task
\* FAILED and raises again
ExecFail(r, agent) ==
  /\ r \in Requests
  /\ tasks[r][agent].pc = "llm"
  /\ tasks' = [tasks EXCEPT ![r][agent] =
                 [executor_except(agent, @, Exception(agent))
                    EXCEPT !.llm_calls = Append(@, "raise")]]
  /\ UNCHANGED <<agents, last_route, tool_calls, requests, submitted, orch, responses, stores, uuid_counter, clock>>

(***************************************************************************)
(* Orchestrator: execute_task.                                             *)
(***************************************************************************)
\* only the first required agent is started
dispatch_first_only(agent_tasks, required_agents, context) ==
  [a \in Agents |->
     IF required_agents # <<>> /\ required_agents[1].agent = a
     THEN NewTask(agent_context(context, a))
     ELSE agent_tasks[a]]

\* _execute_agents_parallel / _execute_agents_sequential up to the first
\* await: one derived context and one execute per required agent
dispatch(agent_tasks, required_agents, context) ==
  [a \in Agents |->
     IF \E i \in 1..Len(required_agents) : required_agents[i].agent = a
     THEN NewTask(agent_context(context, a))
     ELSE agent_tasks[a]]

\* the loop over the tasks is left after the first result
all_awaited_first_only(o) == o.awaiting > 1

\* the loop over the tasks of _execute_agents_parallel has awaited them all
all_awaited(o) == o.awaiting > Len(o.required_agents)

\* WORKING 10%, the classifier, WORKING 25%, then the sub-agents are started
\* (several: in parallel, one: sequentially) or the general query is sent
\* only the routing checkpoint is reported before the executors start
routing_checkpoints_no_delegating(task) == update_status(task, "working", 10)

\* execute_task up to the delegation: WORKING 10% before the classification,
\* WORKING 25% after it
routing_checkpoints(task) ==
  update_status(update_status(task, "working", 10), "working", 25)

OrchRoute(r) ==
  /\ r \in Requests
  /\ tasks[r]["orchestrator"].pc = "created"
  /\ LET task == tasks[r]["orchestrator"]
         required_agents ==
           determine_required_agents(task.context.user_message)
         delegating == routing_checkpoints(task)
     IN /\ orch' = [orch EXCEPT ![r].required_agents = required_agents,
                                ![r].awaiting = 1]
        /\ tasks' = [tasks EXCEPT ![r] =
             [dispatch(@, required_agents, task.context) EXCEPT
                !["orchestrator"] =
                   [delegating EXCEPT !.pc = IF Len(required_agents) = 0
                                             THEN "general_llm" ELSE "await"]]]
  /\ UNCHANGED <<agents, last_route, tool_calls, requests, submitted, responses, stores, uuid_counter, clock>>

\* the awaited sub-agent has returned or raised: its entry joins the results
OrchCollect(r) ==
  /\ r \in Requests
  /\ tasks[r]["orchestrator"].pc = "await"
  /\ ~all_awaited(orch[r])
  /\ LET agent == orch[r].required_agents[orch[r].awaiting].agent
     IN /\ Finished(tasks[r][agent])
        /\ orch' = [orch EXCEPT
             ![r].agent_responses = Append(@, agent_response(agent, tasks[r][agent])),
             ![r].awaiting = @ + 1]
  /\ UNCHANGED <<agents, last_route, tool_calls, requests, submitted, tasks, responses, stores, uuid_counter, clock>>

\* every sub-agent is collected: WORKING 75%; one response is passed
\* through, several are put into the synthesis prompt and the completion
\* call is awaited; an IndexError while the contents are read goes to the
\* except branch of execute_task (FAILED, raised again)
OrchSynthesize(r) ==
  /\ r \in Requests
  /\ tasks[r]["orchestrator"].pc = "await"
  /\ all_awaited(orch[r])
  /\ LET task == update_status(tasks[r]["orchestrator"], "working", 75)
         agent_responses == orch[r].agent_responses
     IN IF synthesis_raises(agent_responses)
        THEN /\ tasks' = [tasks EXCEPT ![r]["orchestrator"] =
                  executor_except("orchestrator", task, Exception("artifacts[0]"))]
             /\ orch' = orch
        ELSE IF Len(agent_responses) = 1
        THEN /\ tasks' = [tasks EXCEPT ![r]["orchestrator"] =
                  [orchestrator_finish(task, single_response(agent_responses),
                                       orch[r].required_agents)
                     EXCEPT !.pc = "returned"]]
             /\ orch' = orch
        ELSE /\ tasks' = [tasks EXCEPT ![r]["orchestrator"] =
                            [task EXCEPT !.pc = "synth_llm"]]
             /\ orch' = [orch EXCEPT ![r].synthesis_prompt =
                           synthesis_prompt(agent_responses, task.context.user_message)]
  /\ UNCHANGED <<agents, last_route, tool_calls, requests, submitted, responses, stores, uuid_counter, clock>>

\* the synthesis completion call ends: its text, or the concatenation
\* fallback when it raised; final artifact, COMPLETED
OrchSynthReturn(r, outcome) ==
  /\ r \in Requests
  /\ outcome \in LlmOutcomes
  /\ tasks[r]["orchestrator"].pc = "synth_llm"
  /\ LET task == tasks[r]["orchestrator"]
         final_response == synthesized_response(orch[r].agent_responses,
                                                task.context.user_message, outcome)
     IN tasks' = [tasks EXCEPT ![r]["orchestrator"] =
          [orchestrator_finish(task, final_response, orch[r].required_agents)
             EXCEPT !.pc = "returned", !.llm_calls = Append(@, outcome)]]
  /\ UNCHANGED <<agents, last_route, tool_calls, requests, submitted, orch, responses, stores, uuid_counter, clock>>

\* _handle_general_query once its completion call ended
handle_general_query(context, outcome) ==
  IF outcome = "raise"
  THEN general_failure(Exception("orchestrator"))
  ELSE general_response(context,
         call_llm("orchestrator", UserMessage(context.user_message), outcome))

\* no agent was required: the general query's completion call ends, WORKING 75%,
\* its single response is passed through; final artifact, COMPLETED
OrchGeneralReturn(r, outcome) ==
  /\ r \in Requests
  /\ outcome \in LlmOutcomes
  /\ tasks[r]["orchestrator"].pc = "general_llm"
  /\ LET task == tasks[r]["orchestrator"]
         agent_responses == <<handle_general_query(task.context, outcome)>>
         synthesizing == update_status(task, "working", 75)
     IN /\ orch' = [orch EXCEPT ![r].agent_responses = agent_responses]
        /\ tasks' = [tasks EXCEPT ![r]["orchestrator"] =
             [orchestrator_finish(synthesizing, single_response(agent_responses),
                                  orch[r].required_agents)
                EXCEPT !.pc = "returned", !.llm_calls = Append(@, outcome)]]
  /\ UNCHANGED <<agents, last_route, tool_calls, requests, submitted, responses, stores, uuid_counter, clock>>

(***************************************************************************)
(* Specification.                                                          *)
(***************************************************************************)
Next ==
  \/ \E r \in Requests : Submit(r)
  \/ \E r \in Requests : Respond(r)
  \/ \E r \in Requests, agent \in Domains : ExecStart(r, agent)
  \/ \E r \in Requests, agent \in Domains, outcome \in LlmOutcomes :
       ExecComplete(r, agent, outcome)
  \/ \E r \in Requests, agent \in Domains : ExecFail(r, agent)
  \/ \E r \in Requests : OrchRoute(r)
  \/ \E r \in Requests : OrchCollect(r)
  \/ \E r \in Requests : OrchSynthesize(r)
  \/ \E r \in Requests, outcome \in LlmOutcomes : OrchSynthReturn(r, outcome)
  \/ \E r \in Requests, outcome \in LlmOutcomes : OrchGeneralReturn(r, outcome)

Spec == Init /\ [][Next]_vars

(***************************************************************************)
(* The classifier alone, on every message of a small alphabet.             *)
(***************************************************************************)
MaxProbeLen == 5

ProbeAlphabet == {"h", "r", "o", "m", "R"}

ProbeMessages == UNION {[1..n -> ProbeAlphabet] : n \in 0..MaxProbeLen}

InitClassify ==
  \E m \in ProbeMessages :
    InitWith(<<[message |-> m, agent_type |-> "orchestrator",
                tenant_id |-> "default", user_id |-> "system"]>>)

NextClassify ==
  \/ \E r \in Requests : Submit(r)
  \/ \E r \in Requests : OrchRoute(r)

SpecClassify == InitClassify /\ [][NextClassify]_vars

(***************************************************************************)
(* Vocabulary of the properties.                                           *)
(***************************************************************************)
\* keyword occurs in text at position pos, letter case of text ignored
OccursAt(keyword, text, pos) ==
  \A j \in 1..Len(keyword) : lower_char(text[pos + j - 1]) = keyword[j]

Occurs(keyword, text) ==
  \E pos \in 1..Len(text) :
    pos + Len(keyword) - 1 <= Len(text) /\ OccursAt(keyword, text, pos)

\* the domains one of whose routing keywords occurs in the message
MatchedDomains(text) ==
  {agent_routing[i].agent :
     i \in {n \in 1..Len(agent_routing) :
              \E k \in 1..Len(agent_routing[n].keywords) :
                Occurs(agent_routing[n].keywords[k], text)}}

OrchRequests == {r \in Requests : agent_executor(requests[r]) = "orchestrator"}

Routed(r) == tasks[r]["orchestrator"].pc \notin {"none", "created"}

Selected(r) ==
  {orch[r].required_agents[i].agent : i \in 1..Len(orch[r].required_agents)}

Invoked(r) == {d \in Domains : tasks[r][d].pc # "none"}

OrchReturned(r) == tasks[r]["orchestrator"].pc = "returned"

FinalArtifact(r) ==
  tasks[r]["orchestrator"].artifacts[Len(tasks[r]["orchestrator"].artifacts)]

(***************************************************************************)
(* C10: the classifier selects a domain exactly when one of the domain's   *)
(* keywords occurs as a substring of the lower-cased message, whatever the *)
(* letter case and the word boundaries of the message, and each domain is  *)
(* decided on its own: the selection is the set of all matched domains.    *)
(***************************************************************************)
C10_ClassifierIffSubstring ==
  \A r \in OrchRequests :
    Routed(r) =>
      /\ Selected(r) = MatchedDomains(requests[r].message)
      /\ Len(orch[r].required_agents) = Cardinality(Selected(r))

\* "hRoom": hr and room both occur, across the letter case and inside a word
C10_Witness ==
  \E r \in OrchRequests :
    /\ Routed(r)
    /\ requests[r].message = <<"h", "R", "o", "o", "m">>
    /\ Selected(r) = {"hr", "meeting"}

Range(seq) == {seq[i] : i \in 1..Len(seq)}

Matched(r) == MatchedDomains(requests[r].message)

(***************************************************************************)
(* C1: a message with routing keywords of exactly one domain is dispatched *)
(* to that domain's executor and to no other, and the content of the       *)
(* Orchestrator's final artifact is that executor's artifact content,      *)
(* unchanged.                                                              *)
(***************************************************************************)
C1_SingleDomainPassThrough ==
  \A r \in OrchRequests :
    Cardinality(Matched(r)) = 1 =>
      /\ Invoked(r) \subseteq Matched(r)
      /\ Routed(r) => Invoked(r) = Matched(r) /\ Selected(r) = Matched(r)
      /\ OrchReturned(r) =>
           \A d \in Matched(r) :
             tasks[r][d].pc = "returned" =>
               /\ Len(tasks[r][d].artifacts) = 1
               /\ FinalArtifact(r).content = tasks[r][d].artifacts[1].content

\* a single-domain run whose executor fired tools has been passed through
C1_Witness ==
  \E r \in OrchRequests :
    /\ Cardinality(Matched(r)) = 1
    /\ OrchReturned(r)
    /\ \E d \in Matched(r) :
         /\ tasks[r][d].pc = "returned"
         /\ tasks[r][d].artifacts[1].metadata.tools_used
         /\ FinalArtifact(r).content = tasks[r][d].artifacts[1].content

(***************************************************************************)
(* C2: a message with routing keywords of two or more domains has every    *)
(* matched executor invoked and no other, all of them have ended when the  *)
(* Orchestrator returns, and sub_agents_used of the final artifact is, as  *)
(* a set, the matched domain set.                                          *)
(***************************************************************************)
C2_MultiDomainFanOut ==
  \A r \in OrchRequests :
    Cardinality(Matched(r)) >= 2 =>
      /\ Invoked(r) \subseteq Matched(r)
      /\ Routed(r) => Invoked(r) = Matched(r)
      /\ OrchReturned(r) =>
           /\ \A d \in Matched(r) : Finished(tasks[r][d])
           /\ Range(FinalArtifact(r).metadata.sub_agents_used) = Matched(r)

\* all three domains matched, ran and are listed
C2_Witness ==
  \E r \in OrchRequests :
    /\ Matched(r) = Domains
    /\ OrchReturned(r)
    /\ \A d \in Domains : Finished(tasks[r][d])
    /\ Range(FinalArtifact(r).metadata.sub_agents_used) = Domains

(***************************************************************************)
(* C3 as stated: for a message with no routing keyword the Orchestrator's  *)
(* result artifact has type "general_response" and no executor is invoked. *)
(***************************************************************************)
C3_Original ==
  \A r \in OrchRequests :
    (Matched(r) = {} /\ OrchReturned(r)) =>
      /\ FinalArtifact(r).type = "general_response"
      /\ Invoked(r) = {}

(***************************************************************************)
(* C3 amended: for a message with no routing keyword no domain executor is *)
(* invoked; the general query's own result is tagged "general_response",   *)
(* and the Orchestrator's result artifact carries that result's content    *)
(* under the type "orchestrated_response" with an empty sub_agents_used.   *)
(***************************************************************************)
C3_GeneralPath ==
  \A r \in OrchRequests :
    Matched(r) = {} =>
      /\ Invoked(r) = {}
      /\ OrchReturned(r) =>
           /\ tasks[r]["orchestrator"].state = "completed"
           /\ FinalArtifact(r).type = "orchestrated_response"
           /\ FinalArtifact(r).metadata.sub_agents_used = <<>>
           /\ Len(orch[r].agent_responses) = 1
           /\ orch[r].agent_responses[1].status = "success" =>
                /\ orch[r].agent_responses[1].result.value.artifacts[1].type
                     = "general_response"
                /\ FinalArtifact(r).content
                     = orch[r].agent_responses[1].result.value.artifacts[1].content

\* "what's the weather" has been answered on the general path
C3_Witness ==
  \E r \in OrchRequests :
    /\ requests[r].message = MessageText.m_weather
    /\ OrchReturned(r)
    /\ Invoked(r) = {}
    /\ orch[r].agent_responses[1].status = "success"
    /\ FinalArtifact(r).type = "orchestrated_response"

(***************************************************************************)
(* C4: when two or more executors run in parallel and exactly one of them  *)
(* raises, the synthesis input holds the "Failed to process request"       *)
(* placeholder for that agent and the artifact content of each other       *)
(* agent, the Orchestrator is never FAILED and, while it has not returned, *)
(* a step of the run is always possible; it returns COMPLETED.             *)
(***************************************************************************)
RaisedAgents(r) == {d \in Selected(r) : tasks[r][d].pc = "raised"}

HasPlaceholder(prompt, d) ==
  \E i \in 1..Len(prompt) :
    /\ prompt[i].seg = "agent_failed"
    /\ prompt[i].agent = title(agent_name_chars[d])
    /\ prompt[i].text = "Failed to process request"

HasContent(prompt, d, content) ==
  \E i \in 1..Len(prompt) :
    /\ prompt[i].seg = "agent_response"
    /\ prompt[i].agent = title(agent_name_chars[d])
    /\ prompt[i].content = content

\* a branch is still running, or the Orchestrator's next step is possible
CanProceed(r) ==
  \/ \E d \in Selected(r) : tasks[r][d].pc \in {"created", "llm"}
  \/ /\ tasks[r]["orchestrator"].pc = "await"
     /\ \/ orch[r].awaiting > Len(orch[r].required_agents)
        \/ Finished(tasks[r][orch[r].required_agents[orch[r].awaiting].agent])
  \/ tasks[r]["orchestrator"].pc = "synth_llm"

C4_OneBranchFailureIsolated ==
  \A r \in OrchRequests :
    (Routed(r) /\ Len(orch[r].required_agents) >= 2) =>
      /\ tasks[r]["orchestrator"].state # "failed"
      /\ tasks[r]["orchestrator"].pc # "raised"
      /\ ~OrchReturned(r) => CanProceed(r)
      /\ (tasks[r]["orchestrator"].pc \in {"synth_llm", "returned"}
            /\ Cardinality(RaisedAgents(r)) = 1) =>
           \A d \in Selected(r) :
             IF d \in RaisedAgents(r)
             THEN HasPlaceholder(orch[r].synthesis_prompt, d)
             ELSE /\ tasks[r][d].state = "completed"
                  /\ HasContent(orch[r].synthesis_prompt, d,
                                tasks[r][d].artifacts[1].content)
      /\ OrchReturned(r) =>
           /\ tasks[r]["orchestrator"].state = "completed"
           /\ Len(tasks[r]["orchestrator"].artifacts) = 1

\* three branches, one raised, the Orchestrator has returned COMPLETED
C4_Witness ==
  \E r \in OrchRequests :
    /\ Selected(r) = Domains
    /\ Cardinality(RaisedAgents(r)) = 1
    /\ OrchReturned(r)
    /\ tasks[r]["orchestrator"].state = "completed"

(***************************************************************************)
(* C5: a domain executor all of whose completion calls found the           *)
(* completion capability unavailable ends COMPLETED, was never FAILED, and *)
(* its artifact content holds the demo-mode fallback.                      *)
(***************************************************************************)
OnlyUnavailable(task) ==
  /\ task.llm_calls # <<>>
  /\ \A i \in 1..Len(task.llm_calls) : task.llm_calls[i] = "unavailable"

HasDemoMarker(content) ==
  \E i \in 1..Len(content) : content[i].seg = "demo_mode"

C7_Original ==
  \A r \in OrchRequests :
    (requests[r].message = MessageText.m_training /\ Routed(r)) =>
      /\ Selected(r) = {"hr"}
      /\ Invoked(r) = {"hr"}

(***************************************************************************)
(* C7 amended: for that message the Orchestrator selects {hr, meeting}     *)
(* ("schedule" is a Meeting routing keyword): the HR and the Meeting       *)
(* executors are invoked, the Supply-Chain executor is not, and the        *)
(* Meeting executor fires no tool.                                         *)
(***************************************************************************)
C7_TrainingSelectsHrAndMeeting ==
  \A r \in OrchRequests :
    requests[r].message = MessageText.m_training =>
      /\ Invoked(r) \subseteq {"hr", "meeting"}
      /\ Routed(r) =>
           /\ Selected(r) = {"hr", "meeting"}
           /\ Invoked(r) = {"hr", "meeting"}
      /\ tasks[r]["meeting"].pc = "returned" =>
           ~tasks[r]["meeting"].artifacts[1].metadata.tools_used

C7_Witness ==
  \E r \in OrchRequests :
    /\ requests[r].message = MessageText.m_training
    /\ OrchReturned(r)
    /\ tasks[r]["hr"].pc = "returned"
    /\ tasks[r]["meeting"].pc = "returned"
    /\ tasks[r]["supply_chain"].pc = "none"

(***************************************************************************)
(* C8: for "I need to schedule a training session for employee EMP_001"    *)
(* the HR executor fires schedule_training and no other HR tool: its       *)
(* response is the completion text, the HR header and one section headed   *)
(* "Schedule Training" whose training_id is "TRN_" followed by the first   *)
(* eight characters of a freshly generated identifier, and the training of *)
(* that id is in the training store under the employee of the task.        *)
(***************************************************************************)
ScheduleTrainingHeading ==
  <<"S","c","h","e","d","u","l","e"," ","T","r","a","i","n","i","n","g">>

TrainingRequests ==
  {r \in Requests : /\ requests[r].message = MessageText.m_training
                    /\ tasks[r]["hr"].pc = "returned"}

C8_TrainingToolFires ==
  \A r \in TrainingRequests :
    LET task == tasks[r]["hr"]
        content == task.artifacts[1].content
        employee_id == prefixed("EMP_", task_id_first8(task.context.task_id))
    IN /\ task.artifacts[1].metadata.tools_used
       /\ Len(content) = 4
       /\ content[1].seg \in {"completion", "demo_mode"}
       /\ content[3] = Text("## HR System Actions Performed:\n\n")
       /\ content[4].seg = "tool"
       /\ content[4].heading = ScheduleTrainingHeading
       /\ content[4].fields.status = "success"
       /\ content[4].fields.training_id.prefix = "TRN_"
       /\ content[4].fields.training_id.chars \in 1..(uuid_counter - 1)
       /\ content[4].fields.training_id.chars # task_id_first8(task.context.task_id)
       /\ employee_id \in DOMAIN trainings_db
       /\ \E i \in 1..Len(trainings_db[employee_id]) :
            /\ trainings_db[employee_id][i].training_id =
                 content[4].fields.training_id
            /\ trainings_db[employee_id][i].status = "scheduled"
       /\ employees_db = <<>>
       /\ certifications_db = <<>>

\* the HR executor, invoked directly, has returned for the message
C8_Witness ==
  \E r \in TrainingRequests :
    /\ requests[r].agent_type = "hr"
    /\ responses[r] # NoResponse
    /\ trainings_db # <<>>

(***************************************************************************)
(* C9: for "book a conference room for tomorrow and also check employee    *)
(* certifications" the Orchestrator selects exactly {hr, meeting}, and the *)
(* sub_agents_used of the final artifact is {"hr", "meeting"} as a set,    *)
(* whichever of the two parallel branches ran first.                       *)
(***************************************************************************)
C9_RoomAndCertifications ==
  \A r \in OrchRequests :
    requests[r].message = MessageText.m_room_cert =>
      /\ Routed(r) => Selected(r) = {"hr", "meeting"}
      /\ OrchReturned(r) =>
           Range(FinalArtifact(r).metadata.sub_agents_used) = {"hr", "meeting"}

\* the Orchestrator has returned and the Meeting branch booked the room
\* before the HR branch tracked the certification
C9_Witness ==
  \E r \in OrchRequests :
    /\ requests[r].message = MessageText.m_room_cert
    /\ OrchReturned(r)
    /\ \E b \in DOMAIN bookings_db : \E e \in DOMAIN certifications_db :
         b.chars < certifications_db[e][1].certification_id.chars

(***************************************************************************)
(* The same request made twice to one domain executor.                     *)
(***************************************************************************)
InitTwice ==
  \E req \in ChatRequests :
    /\ req.agent_type \in Domains
    /\ InitWith(<<req, req>>)

NextTwice ==
  \/ \E r \in Requests : Submit(r)
  \/ \E r \in Requests : Respond(r)
  \/ \E r \in Requests, agent \in Domains : ExecStart(r, agent)
  \/ \E r \in Requests, agent \in Domains, outcome \in LlmOutcomes :
       ExecComplete(r, agent, outcome)
  \/ \E r \in Requests, agent \in Domains : ExecFail(r, agent)

SpecTwice == InitTwice /\ [][NextTwice]_vars

\* both calls have returned and their completion calls ended alike
BothReturned ==
  /\ Len(requests) = 2
  /\ requests[1] = requests[2]
  /\ requests[1].agent_type \in Domains
  /\ \A r \in {1, 2} : tasks[r][requests[r].agent_type].pc = "returned"
  /\ tasks[1][requests[1].agent_type].llm_calls =
       tasks[2][requests[2].agent_type].llm_calls

ContentOf(r) == tasks[r][requests[r].agent_type].artifacts[1].content

tool_keywords(agent) ==
  CASE agent = "hr" -> hr_tool_keywords
    [] agent = "meeting" -> meeting_tool_keywords
    [] agent = "supply_chain" -> supply_chain_tool_keywords

\* the tools of the agent one of whose keywords occurs in the message
FiredTools(agent, text) ==
  {tool_keywords(agent)[i].tool :
     i \in {n \in 1..Len(tool_keywords(agent)) :
              \E k \in 1..Len(tool_keywords(agent)[n].keywords) :
                Occurs(tool_keywords(agent)[n].keywords[k], text)}}

\* the tools that write no store, generate no identifier and do not use
\* the task id
ReadOnlyTools ==
  {"check_room_availability", "track_inventory", "check_supplier_status"}

(***************************************************************************)
(* C6 as stated: two calls of one domain executor whose contexts differ    *)
(* only in task_id, with the same completion outcome, give two artifacts   *)
(* with identical content.                                                 *)
(***************************************************************************)
C6_Original ==
  BothReturned =>
    /\ tasks[1][requests[1].agent_type].context.task_id #
         tasks[2][requests[2].agent_type].context.task_id
    /\ ContentOf(1) = ContentOf(2)

(***************************************************************************)
(* C6 amended: the two calls give two artifacts, one per task, and their   *)
(* content is identical when the message fires no tool or only tools that  *)
(* write no store, generate no identifier and do not use the task id       *)
(* (check_room_availability, track_inventory, check_supplier_status).      *)
(***************************************************************************)
C6_ReadOnlyCallsRepeat ==
  BothReturned =>
    /\ tasks[1][requests[1].agent_type].context.task_id #
         tasks[2][requests[2].agent_type].context.task_id
    /\ \A r \in {1, 2} : Len(tasks[r][requests[r].agent_type].artifacts) = 1
    /\ FiredTools(requests[1].agent_type, requests[1].message)
           \subseteq ReadOnlyTools
         => ContentOf(1) = ContentOf(2)

\* two calls that fired a read-only tool and answered alike
C6_Witness ==
  /\ BothReturned
  /\ FiredTools(requests[1].agent_type, requests[1].message) # {}
  /\ FiredTools(requests[1].agent_type, requests[1].message)
        \subseteq ReadOnlyTools
  /\ tasks[1][requests[1].agent_type].artifacts[1].metadata.tools_used
  /\ ContentOf(1) = ContentOf(2)

(***************************************************************************)
(* Fault injection in the domain executors: a tool operation made to       *)
(* raise, and an exception raised in execute_task after the completion     *)
(* call (in tool processing outside its try, in the merge, or in the       *)
(* recording of the artifact).                                             *)
(***************************************************************************)
AgentTools(agent) ==
  {tool_keywords(agent)[i].tool : i \in 1..Len(tool_keywords(agent))}

FaultSteps == {"tools", "merge", "artifact"}

\* the completion call returns and a fired tool raises: the except branch of
\* tool processing records the error entry; WORKING 75%, merge, artifact,
\* COMPLETED
ExecToolFault(r, agent, outcome, tool) ==
  /\ r \in Requests
  /\ outcome \in {"ok", "unavailable"}
  /\ tool \in AgentTools(agent)
  /\ tasks[r][agent].pc = "llm"
  /\ LET task == tasks[r][agent]
         done == process_tools(agent, task.context.user_message,
                               task.context, World, {tool})
     IN /\ done.raised
        /\ tasks' = [tasks EXCEPT ![r][agent] =
                       [executor_finish(agent, task, outcome, done.tool_results)
                          EXCEPT !.pc = "returned",
                                 !.llm_calls = Append(@, outcome),
                                 !.raising = {tool}]]
        /\ SetWorld(done.w)
  /\ UNCHANGED <<agents, last_route, tool_calls, requests, submitted, orch, responses>>

\* the completion call returns and an exception escapes a later step of
\* execute_task: the handler marks the task FAILED and raises again
ExecStepFault(r, agent, outcome, step) ==
  /\ r \in Requests
  /\ outcome \in {"ok", "unavailable"}
  /\ step \in FaultSteps
  /\ tasks[r][agent].pc = "llm"
  /\ LET task == tasks[r][agent]
         done == IF step = "tools"
                 THEN [w |-> World, tool_results |-> <<>>, raised |-> FALSE]
                 ELSE process_tools(agent, task.context.user_message,
                                    task.context, World, {})
         reached == IF step = "tools" THEN task
                    ELSE update_status(task, "working", 75)
     IN /\ tasks' = [tasks EXCEPT ![r][agent] =
                       [executor_except(agent, reached, Exception(step))
                          EXCEPT !.llm_calls = Append(@, outcome),
                                 !.fault = step]]
        /\ SetWorld(done.w)
  /\ UNCHANGED <<agents, last_route, tool_calls, requests, submitted, orch, responses>>

NextFault ==
  \/ \E r \in Requests : Submit(r)
  \/ \E r \in Requests : Respond(r)
  \/ \E r \in Requests, agent \in Domains : ExecStart(r, agent)
  \/ \E r \in Requests, agent \in Domains, outcome \in LlmOutcomes :
       ExecComplete(r, agent, outcome)
  \/ \E r \in Requests, agent \in Domains : ExecFail(r, agent)
  \/ \E r \in Requests, agent \in Domains, outcome \in LlmOutcomes :
       \E tool \in AgentTools(agent) : ExecToolFault(r, agent, outcome, tool)
  \/ \E r \in Requests, agent \in Domains, outcome \in LlmOutcomes :
       \E step \in FaultSteps : ExecStepFault(r, agent, outcome, step)
  \/ \E r \in Requests : OrchRoute(r)
  \/ \E r \in Requests : OrchCollect(r)
  \/ \E r \in Requests : OrchSynthesize(r)
  \/ \E r \in Requests, outcome \in LlmOutcomes : OrchSynthReturn(r, outcome)
  \/ \E r \in Requests, outcome \in LlmOutcomes : OrchGeneralReturn(r, outcome)

SpecFault == Init /\ [][NextFault]_vars

(***************************************************************************)
(* C11: the status history of every task is PENDING, then one or more      *)
(* WORKING updates, then at most one terminal state COMPLETED or FAILED,   *)
(* which is the last entry: nothing is applied after complete or fail, and *)
(* a task that has ended has exactly one terminal entry.                   *)
(***************************************************************************)
TerminalStates == {"completed", "failed"}

Lifecycle(task) ==
  LET log == task.log
  IN /\ Len(log) >= 1
     /\ log[1].state = "pending"
     /\ task.state = log[Len(log)].state
     /\ \A i \in 2..Len(log) :
          /\ log[i].state \in {"working"} \cup TerminalStates
          /\ log[i].state \in TerminalStates => i = Len(log)
          /\ log[i].state \in TerminalStates => log[i - 1].state = "working"
     /\ Finished(task) => task.state \in TerminalStates

C11_TaskLifecycle ==
  \A r \in Requests : \A a \in Agents :
    tasks[r][a].pc # "none" => Lifecycle(tasks[r][a])

\* an orchestration that COMPLETED over one COMPLETED and one FAILED branch
C11_Witness ==
  \E r \in OrchRequests :
    /\ tasks[r]["orchestrator"].state = "completed"
    /\ \E a \in Domains : tasks[r][a].state = "completed"
    /\ \E a \in Domains : tasks[r][a].state = "failed"

(***************************************************************************)
(* C12: when an exception escapes tool processing, the merge or the        *)
(* recording of the artifact in a domain executor, the task is FAILED with *)
(* the message of the exception and the exception is raised to the caller: *)
(* the task is never left WORKING, is never COMPLETED, and the caller (the *)
(* Orchestrator or the chat endpoint) sees the error.                      *)
(***************************************************************************)
C12_EscapingExceptionFailsTask ==
  \A r \in Requests : \A d \in Domains :
    tasks[r][d].fault # "none" =>
      /\ tasks[r][d].pc = "raised"
      /\ tasks[r][d].state = "failed"
      /\ tasks[r][d].error =
           <<Text(failure_prefix[d])>> \o Exception(tasks[r][d].fault)
      /\ tasks[r][d].log[Len(tasks[r][d].log)].state = "failed"
      /\ \A i \in 1..Len(tasks[r][d].log) : tasks[r][d].log[i].state # "completed"
      /\ tasks[r][d].artifacts = <<>>
      /\ (requests[r].agent_type = d /\ responses[r] # NoResponse) =>
           /\ responses[r].kind = "http_500"
           /\ responses[r].detail =
                <<Text("Internal server error: ")>> \o Exception(tasks[r][d].fault)
      /\ \A i \in 1..Len(orch[r].agent_responses) :
           orch[r].agent_responses[i].agent = d =>
             orch[r].agent_responses[i].status = "error"

\* the merge of one branch raised after its tools wrote a store, and the
\* Orchestrator has collected the branch
C12_Witness ==
  \E r \in OrchRequests : \E d \in Domains :
    /\ tasks[r][d].fault = "merge"
    /\ tasks[r][d].state = "failed"
    /\ trainings_db # <<>> \/ bookings_db # <<>> \/ orders_db # <<>>
    /\ \E i \in 1..Len(orch[r].agent_responses) :
         orch[r].agent_responses[i].agent = d

(***************************************************************************)
(* C13 as stated: when a tool call of a domain executor raises, the error  *)
(* is recorded as an "error" entry, every other tool whose keywords occur  *)
(* in the message still fires and has its section in the response, and the *)
(* task is COMPLETED.                                                      *)
(***************************************************************************)
DisplayName(tool) == title(replace(tool_name_chars[tool], "_", " "))

HasSection(content, tool) ==
  \E i \in 1..Len(content) :
    content[i].seg = "tool" /\ content[i].heading = DisplayName(tool)

HasErrorEntry(content) ==
  \E i \in 1..Len(content) : content[i].seg = "tool_error"

C13_Original ==
  \A r \in Requests : \A d \in Domains :
    (tasks[r][d].raising # {} /\ Finished(tasks[r][d])) =>
      /\ tasks[r][d].state = "completed"
      /\ HasErrorEntry(tasks[r][d].artifacts[1].content)
      /\ \A tool \in FiredTools(d, requests[r].message) \ tasks[r][d].raising :
           HasSection(tasks[r][d].artifacts[1].content, tool)

(***************************************************************************)
(* C14: when the synthesis completion call raises, the Orchestrator's      *)
(* response is the fixed heading followed by one section per branch that   *)
(* succeeded, in routing order, each with the agent's label and its        *)
(* artifact content; this holds for every combination of succeeded and     *)
(* failed branches, and the orchestration is COMPLETED, never FAILED.      *)
(***************************************************************************)
SynthesisRaised(r) ==
  /\ Len(orch[r].required_agents) >= 2
  /\ tasks[r]["orchestrator"].llm_calls = <<"raise">>

Succeeded(r) == {d \in Selected(r) : tasks[r][d].pc = "returned"}

C14_SynthesisFallback ==
  \A r \in OrchRequests :
    SynthesisRaised(r) =>
      LET content == FinalArtifact(r).content
      IN /\ OrchReturned(r)
         /\ tasks[r]["orchestrator"].state = "completed"
         /\ \A i \in 1..Len(tasks[r]["orchestrator"].log) :
              tasks[r]["orchestrator"].log[i].state # "failed"
         /\ content[1] = Text("Here are the responses from our specialized agents:\n\n")
         /\ Len(content) = 1 + Cardinality(Succeeded(r))
         /\ \A i \in 2..Len(content) :
              /\ content[i].seg = "agent_heading"
              /\ \E d \in Succeeded(r) :
                   /\ content[i].agent = title(agent_name_chars[d])
                   /\ content[i].content = tasks[r][d].artifacts[1].content
         /\ \A i \in 2..Len(content) : \A j \in 2..Len(content) :
              i # j => content[i].agent # content[j].agent

\* the fallback over two succeeded branches and one failed branch
C14_Witness ==
  \E r \in OrchRequests :
    /\ SynthesisRaised(r)
    /\ OrchReturned(r)
    /\ Cardinality(Succeeded(r)) = 2
    /\ Cardinality(RaisedAgents(r)) = 1

(***************************************************************************)
(* C15: with several domains selected, every selected executor is started  *)
(* when the Orchestrator starts waiting, and synthesis starts only once    *)
(* every branch has ended, by result or by exception: each branch has its  *)
(* own entry in the results, success for a returned branch and error for a *)
(* raised one, and a branch that ended does not end the wait for the       *)
(* others.                                                                 *)
(***************************************************************************)
C15_WaitsForAllBranches ==
  \A r \in OrchRequests :
    (Routed(r) /\ Len(orch[r].required_agents) >= 2) =>
      /\ \A d \in Selected(r) : tasks[r][d].pc # "none"
      /\ Len(orch[r].agent_responses) = orch[r].awaiting - 1
      /\ \A i \in 1..Len(orch[r].agent_responses) :
           LET d == orch[r].required_agents[i].agent
           IN /\ orch[r].agent_responses[i].agent = d
              /\ Finished(tasks[r][d])
              /\ orch[r].agent_responses[i].status = "success"
                   <=> tasks[r][d].pc = "returned"
      /\ tasks[r]["orchestrator"].pc \in {"synth_llm", "returned"} =>
           /\ \A d \in Selected(r) : Finished(tasks[r][d])
           /\ Len(orch[r].agent_responses) = Len(orch[r].required_agents)

\* the second branch has raised while the Orchestrator still waits for the
\* first, and the third has not run yet
C15_Witness ==
  \E r \in OrchRequests :
    /\ Len(orch[r].required_agents) = 3
    /\ tasks[r]["orchestrator"].pc = "await"
    /\ orch[r].awaiting = 1
    /\ tasks[r][orch[r].required_agents[1].agent].pc = "llm"
    /\ tasks[r][orch[r].required_agents[2].agent].pc = "raised"
    /\ tasks[r][orch[r].required_agents[3].agent].pc = "created"

(***************************************************************************)
(* C16: every sub-agent invocation has its own context whose task_id is    *)
(* the parent's task_id suffixed with "_" and the domain tag, so sibling   *)
(* task_ids are pairwise distinct and differ from the parent's; the other  *)
(* four fields are the parent's, and the parent's context never changes.   *)
(***************************************************************************)
DerivedContext(child, parent, d) ==
  /\ child.task_id = [uuid |-> parent.task_id.uuid, suffix |-> <<"_", d>>]
  /\ child.task_id # parent.task_id
  /\ child.context_id = parent.context_id
  /\ child.user_message = parent.user_message
  /\ child.tenant_id = parent.tenant_id
  /\ child.user_id = parent.user_id

C16_DerivedContexts ==
  [][
    \A r \in OrchRequests :
      /\ tasks[r]["orchestrator"].pc # "none" =>
           tasks'[r]["orchestrator"].context = tasks[r]["orchestrator"].context
      /\ \A d \in Domains :
           tasks'[r][d].pc # "none" =>
             /\ DerivedContext(tasks'[r][d].context,
                               tasks'[r]["orchestrator"].context, d)
             /\ \A e \in Domains \ {d} :
                  tasks'[r][e].pc # "none" =>
                    tasks'[r][e].context.task_id # tasks'[r][d].context.task_id
  ]_vars

\* three sibling invocations of one request have ended
C16_Witness ==
  \E r \in OrchRequests :
    /\ Invoked(r) = Domains
    /\ OrchReturned(r)
    /\ tasks[r]["orchestrator"].context.user_message = requests[r].message

(***************************************************************************)
(* C17: a COMPLETED task has exactly one artifact, which was added while   *)
(* the task was WORKING, before the COMPLETED transition; the artifact     *)
(* list of a task only grows, and what it holds is never changed.          *)
(***************************************************************************)
ArtifactsOf(task) ==
  /\ task.state = "completed" => Len(task.artifacts) = 1
  /\ Len(task.artifacts) <= 1
  /\ \A i \in 1..Len(task.artifacts) : task.artifacts[i].recorded_in = "working"

C17_ArtifactOnCompleted ==
  [][
    \A r \in Requests : \A a \in Agents :
      /\ ArtifactsOf(tasks'[r][a])
      /\ Len(tasks'[r][a].artifacts) >= Len(tasks[r][a].artifacts)
      /\ SubSeq(tasks'[r][a].artifacts, 1, Len(tasks[r][a].artifacts))
           = tasks[r][a].artifacts
  ]_vars

\* the Orchestrator and two of its branches are COMPLETED, a third FAILED
C17_Witness ==
  \E r \in OrchRequests :
    /\ tasks[r]["orchestrator"].state = "completed"
    /\ Len(tasks[r]["orchestrator"].artifacts) = 1
    /\ Cardinality({d \in Domains : /\ tasks[r][d].state = "completed"
                                     /\ Len(tasks[r][d].artifacts) = 1}) = 2
    /\ \E d \in Domains : tasks[r][d].state = "failed" /\ tasks[r][d].artifacts = <<>>

(***************************************************************************)
(* C18: the final artifact of every COMPLETED Orchestrator run has         *)
(* artifact_type "orchestrated_response"; its sub_agents_used lists, once  *)
(* each, the executors that were invoked, and its tenant_id is the tenant  *)
(* of the request.                                                         *)
(***************************************************************************)
C18_FinalArtifact ==
  \A r \in OrchRequests :
    tasks[r]["orchestrator"].state = "completed" =>
      /\ FinalArtifact(r).type = "orchestrated_response"
      /\ FinalArtifact(r).metadata.agent_type = "orchestrator"
      /\ Range(FinalArtifact(r).metadata.sub_agents_used) = Invoked(r)
      /\ Len(FinalArtifact(r).metadata.sub_agents_used) = Cardinality(Invoked(r))
      /\ FinalArtifact(r).metadata.tenant_id = requests[r].tenant_id

\* a COMPLETED run for a tenant other than the default one, two executors used
C18_Witness ==
  \E r \in OrchRequests :
    /\ tasks[r]["orchestrator"].state = "completed"
    /\ requests[r].tenant_id = "acme"
    /\ Cardinality(Invoked(r)) = 2
    /\ FinalArtifact(r).metadata.tenant_id = "acme"

(***************************************************************************)
(* C19: every run of the executor called by the chat endpoint ends         *)
(* COMPLETED with an artifact or FAILED with an error message; what the    *)
(* caller gets is the content of the artifact with status "completed", or  *)
(* the error message.                                                      *)
(***************************************************************************)
C19_CompletedOrFailed ==
  \A r \in Requests :
    LET task == tasks[r][agent_executor(requests[r])]
    IN /\ Finished(task) =>
            \/ /\ task.pc = "returned"
               /\ task.state = "completed"
               /\ task.artifacts # <<>>
            \/ /\ task.pc = "raised"
               /\ task.state = "failed"
               /\ task.error # <<>>
       /\ responses[r] # NoResponse =>
            IF responses[r].kind = "chat_response"
            THEN /\ responses[r].metadata.status = "completed"
                 /\ responses[r].metadata.artifacts_count >= 1
                 /\ responses[r].response = task.artifacts[1].content
            ELSE /\ responses[r].kind = "http_500"
                 /\ task.state = "failed"
                 /\ responses[r].detail =
                      <<Text("Internal server error: ")>> \o task.exception

\* a domain executor called directly has FAILED and the caller has the error
C19_Witness ==
  \E r \in Requests :
    /\ requests[r].agent_type \in Domains
    /\ tasks[r][requests[r].agent_type].state = "failed"
    /\ responses[r] # NoResponse
    /\ responses[r].kind = "http_500"

(***************************************************************************)
(* The tool operations called directly, as the MCP servers expose them,    *)
(* with known and unknown targets.                                         *)
(***************************************************************************)
MaxToolCalls == 3

\* cancel_data.get("booking_id") of a mapping without the key
None == prefixed("None", 0)

\* no uuid4 has this head
UnknownBookingId == prefixed("BOOK_", 0)

PartNumbers == {"ENG_PART_001", "NO_SUCH_PART"}

SupplierIds == {"SUP_001", "NO_SUCH_SUPPLIER"}

ToolCall(tool, found, out) ==
  /\ Len(tool_calls) < MaxToolCalls
  /\ SetWorld(out.w)
  /\ tool_calls' = Append(tool_calls,
                          [tool |-> tool, found |-> found, result |-> out.result])
  /\ UNCHANGED <<agents, last_route, submitted, requests, tasks, orch, responses>>

CallBookMeetingRoom ==
  ToolCall("book_meeting_room", TRUE,
           book_meeting_room([room_id |-> "CONF_A1",
                              meeting_title |-> "Aviation Team Meeting",
                              organizer |-> "system",
                              start_time |-> "2024-02-01T10:00:00",
                              end_time |-> "2024-02-01T11:00:00",
                              attendees |-> <<"team@aviation.com">>,
                              equipment_needed |-> <<"projector">>], World))

CallCancelBooking(booking_id) ==
  ToolCall("cancel_booking", booking_id \in DOMAIN bookings_db,
           cancel_booking([booking_id |-> booking_id,
                           reason |-> "User requested cancellation",
                           cancelled_by |-> "system"], World))

CallTrackInventory(part_number) ==
  ToolCall("track_inventory", part_number \in DOMAIN inventory_db,
           track_inventory([part_number |-> part_number,
                            location |-> "Main Warehouse",
                            check_type |-> "current_stock"], World))

CallOrderParts(part_number, supplier_id) ==
  ToolCall("order_parts",
           part_number \in DOMAIN inventory_db /\ supplier_id \in DOMAIN supplier_db,
           order_parts([part_number |-> part_number,
                        quantity |-> 5,
                        supplier_id |-> supplier_id,
                        priority |-> "normal",
                        delivery_date |-> "2024-02-15",
                        cost_center |-> "Maintenance"], World))

CallCheckSupplierStatus(supplier_id) ==
  ToolCall("check_supplier_status", supplier_id \in DOMAIN supplier_db,
           check_supplier_status([supplier_id |-> supplier_id,
                                  check_type |-> "full_status"], World))

EmployeeIds == {prefixed("EMP_", 1), prefixed("EMP_", 2)}

CallScheduleTraining(employee_id) ==
  ToolCall("schedule_training", TRUE,
           schedule_training([employee_id |-> employee_id,
                              training_type |-> "Safety Training",
                              scheduled_date |-> "2024-02-01",
                              instructor |-> "Safety Officer",
                              duration_hours |-> 8], World))

InitTools == InitWith(<<>>)

NextTools ==
  \/ CallBookMeetingRoom
  \/ \E booking_id \in (DOMAIN bookings_db) \cup {UnknownBookingId, None} :
       CallCancelBooking(booking_id)
  \/ \E part_number \in PartNumbers : CallTrackInventory(part_number)
  \/ \E part_number \in PartNumbers, supplier_id \in SupplierIds :
       CallOrderParts(part_number, supplier_id)
  \/ \E supplier_id \in SupplierIds : CallCheckSupplierStatus(supplier_id)
  \/ \E employee_id \in EmployeeIds : CallScheduleTraining(employee_id)

SpecTools == InitTools /\ [][NextTools]_vars

\* the calls of a tool whose target did not exist
NotFoundCalls(tool) ==
  {i \in 1..Len(tool_calls) : tool_calls[i].tool = tool /\ ~tool_calls[i].found}

ExecFailReturn(r, agent) ==
  /\ r \in Requests
  /\ tasks[r][agent].pc = "llm"
  /\ tasks' = [tasks EXCEPT ![r][agent] =
                 [fail(@, <<Text(failure_prefix[agent])>> \o Exception(agent))
                    EXCEPT !.pc = "returned", !.llm_calls = Append(@, "raise")]]
  /\ UNCHANGED <<agents, last_route, tool_calls, requests, submitted, orch, responses, stores, uuid_counter, clock>>

NextReturnFailed ==
  \/ \E r \in Requests : Submit(r)
  \/ \E r \in Requests : Respond(r)
  \/ \E r \in Requests, agent \in Domains : ExecStart(r, agent)
  \/ \E r \in Requests, agent \in Domains, outcome \in LlmOutcomes :
       ExecComplete(r, agent, outcome)
  \/ \E r \in Requests, agent \in Domains : ExecFailReturn(r, agent)
  \/ \E r \in Requests : OrchRoute(r)
  \/ \E r \in Requests : OrchCollect(r)
  \/ \E r \in Requests : OrchSynthesize(r)
  \/ \E r \in Requests, outcome \in LlmOutcomes : OrchSynthReturn(r, outcome)
  \/ \E r \in Requests, outcome \in LlmOutcomes : OrchGeneralReturn(r, outcome)

SpecReturnFailed == Init /\ [][NextReturnFailed]_vars

\* execute of sub-agent d returned a result whose status is FAILED
ReturnedFailed(r, d) ==
  tasks[r][d].pc = "returned" /\ tasks[r][d].state = "failed"

(***************************************************************************)
(* C21 as stated: a branch whose execute returned a FAILED result is       *)
(* recorded with status "error" like a branch that raised, its placeholder *)
(* is in the synthesis prompt, and the Orchestrator is never FAILED.       *)
(***************************************************************************)
C21_Original ==
  \A r \in OrchRequests : \A d \in Domains :
    ReturnedFailed(r, d) =>
      /\ \A i \in 1..Len(orch[r].agent_responses) :
           orch[r].agent_responses[i].agent = d =>
             orch[r].agent_responses[i].status = "error"
      /\ orch[r].synthesis_prompt # <<>> => HasPlaceholder(orch[r].synthesis_prompt, d)
      /\ tasks[r]["orchestrator"].state # "failed"

(***************************************************************************)
(* C22: the merged response of a domain executor is the completion text    *)
(* alone when no tool fired; when tools fired it is the completion text, a *)
(* blank line, the "## <Domain> System Actions Performed:" header and one  *)
(* entry per fired tool, in the order of the tool checks, each headed by   *)
(* the title-cased tool name and carrying the fields of the tool's result. *)
(***************************************************************************)
\* the positions in the agent's tool check order whose keywords occur in text
FiredChecks(agent, text) ==
  {n \in 1..Len(tool_keywords(agent)) :
     \E k \in 1..Len(tool_keywords(agent)[n].keywords) :
       Occurs(tool_keywords(agent)[n].keywords[k], text)}

SectionHeader ==
  [hr |-> "## HR System Actions Performed:\n\n",
   meeting |-> "## Meeting System Actions Performed:\n\n",
   supply_chain |-> "## Supply Chain System Actions Performed:\n\n"]

C22_MergedResponse ==
  \A r \in Requests : \A d \in Domains :
    tasks[r][d].pc = "returned" =>
      LET content == tasks[r][d].artifacts[1].content
          text == requests[r].message
          fired == FiredChecks(d, text)
          completion == call_llm(d, UserMessage(text), tasks[r][d].llm_calls[1])
      IN IF fired = {}
         THEN content = completion
         ELSE /\ Len(content) = Len(completion) + 2 + Cardinality(fired)
              /\ SubSeq(content, 1, Len(completion)) = completion
              /\ content[Len(completion) + 1] = Text("\n\n")
              /\ content[Len(completion) + 2] = Text(SectionHeader[d])
              /\ \A n \in fired :
                   LET entry == content[Len(completion) + 2
                                          + Cardinality({m \in fired : m <= n})]
                   IN /\ entry.seg = "tool"
                      /\ entry.heading = DisplayName(tool_keywords(d)[n].tool)
                      /\ {"status", "message"} \subseteq DOMAIN entry.fields
                      /\ entry.fields.status \in {"success", "error"}

\* an executor called through the Orchestrator fired two tools or more
C22_Witness ==
  \E r \in OrchRequests : \E d \in Domains :
    /\ tasks[r][d].pc = "returned"
    /\ Cardinality(FiredChecks(d, requests[r].message)) >= 2
    /\ Len(tasks[r][d].artifacts[1].content) >= 5

(***************************************************************************)
(* C23: a domain executor reports 25% before its completion call and       *)
(* before any of its tools runs, 75% once the tools are processed and      *)
(* before the artifact is recorded, and 100% with COMPLETED after the      *)
(* artifact; the progress reported during a run never decreases.           *)
(***************************************************************************)
StoresEmpty ==
  /\ employees_db = <<>>
  /\ certifications_db = <<>>
  /\ trainings_db = <<>>
  /\ bookings_db = <<>>
  /\ orders_db = <<>>

Checkpoint(state, progress) == [state |-> state, progress |-> progress]

C23_ExecutorCheckpoints ==
  \A r \in Requests : \A d \in Domains :
    LET task == tasks[r][d]
    IN /\ \A i \in 2..Len(task.log) : task.log[i].progress >= task.log[i - 1].progress
       /\ task.pc = "created" => task.log = <<Checkpoint("pending", 0)>>
       /\ task.pc = "llm" =>
            /\ task.log = <<Checkpoint("pending", 0), Checkpoint("working", 25)>>
            /\ task.llm_calls = <<>>
            /\ requests[r].agent_type = d => StoresEmpty
       /\ task.state = "completed" =>
            /\ task.log = <<Checkpoint("pending", 0), Checkpoint("working", 25),
                            Checkpoint("working", 75), Checkpoint("completed", 100)>>
            /\ Len(task.artifacts) = 1
            /\ task.artifacts[1].recorded_at = 75
            /\ task.llm_calls # <<>>

\* a run whose tools wrote a store is COMPLETED at 100%
C23_Witness ==
  \E r \in Requests : \E d \in Domains :
    /\ requests[r].agent_type = d
    /\ tasks[r][d].state = "completed"
    /\ tasks[r][d].progress = 100
    /\ ~StoresEmpty

(***************************************************************************)
(* C24: the Orchestrator reports routing (10%), delegating (25%) and       *)
(* synthesizing (75%) in this order: nothing is classified before the      *)
(* routing checkpoint, no domain executor is started before the delegating *)
(* checkpoint, and the synthesizing checkpoint comes after every branch    *)
(* has finished and before the synthesis completion call ends.             *)
(***************************************************************************)
C24_OrchestratorCheckpoints ==
  \A r \in OrchRequests :
    LET task == tasks[r]["orchestrator"]
        delegated == <<Checkpoint("pending", 0), Checkpoint("working", 10),
                       Checkpoint("working", 25)>>
    IN /\ task.pc = "created" =>
            /\ task.log = <<Checkpoint("pending", 0)>>
            /\ orch[r].required_agents = <<>>
       /\ \A d \in Domains :
            tasks[r][d].pc # "none" =>
              Len(task.log) >= 3 /\ SubSeq(task.log, 1, 3) = delegated
       /\ task.pc \in {"await", "general_llm"} => task.log = delegated
       /\ \A i \in 1..Len(task.log) :
            task.log[i] = Checkpoint("working", 75) =>
              /\ i = 4
              /\ SubSeq(task.log, 1, 3) = delegated
              /\ \A d \in Selected(r) : Finished(tasks[r][d])
       /\ task.pc = "synth_llm" =>
            /\ task.log = Append(delegated, Checkpoint("working", 75))
            /\ task.llm_calls = <<>>
       /\ task.state = "completed" =>
            task.log = delegated \o <<Checkpoint("working", 75),
                                      Checkpoint("completed", 100)>>

\* three branches have finished, one of them by exception, and the synthesis
\* completion call is awaited
C24_Witness ==
  \E r \in OrchRequests :
    /\ tasks[r]["orchestrator"].pc = "synth_llm"
    /\ tasks[r]["orchestrator"].progress = 75
    /\ Cardinality(Selected(r)) = 3
    /\ \E d \in Selected(r) : tasks[r][d].pc = "raised"

(***************************************************************************)
(* C25: the stores of a domain are empty until that domain's executor has  *)
(* run its tool operations, and then hold exactly what that domain's tools *)
(* produce when run alone on empty stores (up to the fresh identifiers     *)
(* drawn), and so does the executor's response: the branches of a request  *)
(* do not see or disturb each other's stores, whatever the order they run  *)
(* in.                                                                     *)
(***************************************************************************)
DomainStores(d, w) ==
  CASE d = "hr" -> <<w.employees_db, w.certifications_db, w.trainings_db>>
    [] d = "meeting" -> <<w.bookings_db>>
    [] d = "supply_chain" -> <<w.orders_db>>

\* the stores as at import, with the uuid source and the clock at u and c
EmptyWorld(u, c) ==
  [employees_db |-> <<>>, certifications_db |-> <<>>, trainings_db |-> <<>>,
   bookings_db |-> <<>>, orders_db |-> <<>>, uuid_counter |-> u, clock |-> c]

\* the stores of domain d, and the response of its executor, are what d's
\* tools alone make of empty stores
OwnToolsOnly(r, d) ==
  IF tasks[r][d].pc = "returned"
  THEN \E u \in 1..uuid_counter :
         LET alone == process_tools(d, requests[r].message, tasks[r][d].context,
                                    EmptyWorld(u, clock), {})
         IN /\ DomainStores(d, World) = DomainStores(d, alone.w)
            /\ tasks[r][d].artifacts[1].content =
                 agent_combine_responses(d,
                   call_llm(d, UserMessage(requests[r].message),
                            tasks[r][d].llm_calls[1]),
                   alone.tool_results)
  ELSE DomainStores(d, World) = DomainStores(d, EmptyWorld(1, 1))

C25_StoresPerDomain ==
  \A r \in Requests : \A d \in Domains : OwnToolsOnly(r, d)

\* three branches have returned, and the Supply-Chain branch, last in the
\* routing order, wrote its order before the Meeting branch wrote its booking
C25_Witness ==
  \E r \in OrchRequests :
    /\ Cardinality(Selected(r)) = 3
    /\ \A d \in Domains : tasks[r][d].pc = "returned"
    /\ \E o \in DOMAIN orders_db : \E b \in DOMAIN bookings_db : o.chars < b.chars

(***************************************************************************)
(* C26: when exactly one domain is selected and its executor raises, the   *)
(* Orchestrator is never FAILED; it ends COMPLETED, the content of its     *)
(* final artifact is "Agent execution failed: " followed by the message of *)
(* the exception, and sub_agents_used lists that domain.                   *)
(***************************************************************************)
C26_SingleBranchFailure ==
  \A r \in OrchRequests : \A d \in Domains :
    (Selected(r) = {d} /\ tasks[r][d].pc = "raised") =>
      /\ tasks[r][d].exception \in
           {Exception(d)} \cup {Exception(step) : step \in FaultSteps}
      /\ tasks[r]["orchestrator"].state # "failed"
      /\ tasks[r]["orchestrator"].pc \in {"await", "returned"}
      /\ OrchReturned(r) =>
           /\ tasks[r]["orchestrator"].state = "completed"
           /\ FinalArtifact(r).content =
                <<Text("Agent execution failed: ")>> \o tasks[r][d].exception
           /\ FinalArtifact(r).metadata.sub_agents_used = <<d>>
           /\ tasks[r]["orchestrator"].llm_calls = <<>>

\* the only selected executor raised after its tools ran, and the Orchestrator
\* has returned
C26_Witness ==
  \E r \in OrchRequests : \E d \in Domains :
    /\ Selected(r) = {d}
    /\ tasks[r][d].fault = "merge"
    /\ OrchReturned(r)
    /\ tasks[r]["orchestrator"].state = "completed"

(***************************************************************************)
(* C27: the selected executors, the branch results handed to synthesis and *)
(* sub_agents_used are all in the routing order hr, meeting, supply_chain, *)
(* restricted to the matched domains, whichever branch finished first and  *)
(* wherever the keywords stand in the message.                             *)
(***************************************************************************)
RoutingOrder == <<"hr", "meeting", "supply_chain">>

InRoutingOrder(S) ==
  LET selected(d) == d \in S
  IN SelectSeq(RoutingOrder, selected)

C27_RoutingOrderKept ==
  \A r \in OrchRequests :
    Routed(r) =>
      LET expected == InRoutingOrder(Matched(r))
          results == orch[r].agent_responses
          prompt == orch[r].synthesis_prompt
      IN /\ Len(orch[r].required_agents) = Len(expected)
         /\ \A i \in 1..Len(expected) : orch[r].required_agents[i].agent = expected[i]
         /\ expected # <<>> =>
              /\ Len(results) <= Len(expected)
              /\ \A i \in 1..Len(results) : results[i].agent = expected[i]
         /\ prompt # <<>> =>
              \A i \in 1..Len(expected) :
                prompt[3 + i].agent = title(agent_name_chars[expected[i]])
         /\ OrchReturned(r) =>
              FinalArtifact(r).metadata.sub_agents_used = expected

\* "order parts, book a room and hire staff": the keywords stand in the
\* reverse of the routing order and the Supply-Chain branch ran before the
\* Meeting branch; the Orchestrator has returned
C27_Witness ==
  \E r \in OrchRequests :
    /\ requests[r].message = MessageText.m_all
    /\ OrchReturned(r)
    /\ Len(orch[r].synthesis_prompt) >= 6
    /\ \E o \in DOMAIN orders_db : \E b \in DOMAIN bookings_db : o.chars < b.chars

(***************************************************************************)
(* C28: a tool call is one step for every other coroutine, so calls made   *)
(* by concurrent requests take effect one after the other in some order.   *)
(* In every order, each schedule_training call for an employee id has its  *)
(* own record in that employee's list (two calls for the same id leave two *)
(* records), and each book_meeting_room and each order_parts call has its  *)
(* own entry in bookings_db or orders_db.                                  *)
(***************************************************************************)
CallsOf(tool) == {i \in 1..Len(tool_calls) : tool_calls[i].tool = tool}

TrainingsOf(employee_id) ==
  IF employee_id \in DOMAIN trainings_db THEN trainings_db[employee_id] ELSE <<>>

C28_NoLostUpdate ==
  /\ \A e \in EmployeeIds :
       /\ Len(TrainingsOf(e)) =
            Cardinality({i \in CallsOf("schedule_training") :
                           tool_calls[i].result.details.employee_id = e})
       /\ \A j \in 1..Len(TrainingsOf(e)) : \A k \in 1..Len(TrainingsOf(e)) :
            TrainingsOf(e)[j].training_id = TrainingsOf(e)[k].training_id => j = k
  /\ \A i \in CallsOf("schedule_training") :
       \E k \in 1..Len(TrainingsOf(tool_calls[i].result.details.employee_id)) :
         TrainingsOf(tool_calls[i].result.details.employee_id)[k]
           = tool_calls[i].result.details
  /\ Cardinality(DOMAIN bookings_db) = Cardinality(CallsOf("book_meeting_room"))
  /\ \A i \in CallsOf("book_meeting_room") :
       /\ tool_calls[i].result.booking_id \in DOMAIN bookings_db
       /\ bookings_db[tool_calls[i].result.booking_id].booking_id
            = tool_calls[i].result.booking_id
  /\ Cardinality(DOMAIN orders_db) = Cardinality(CallsOf("order_parts"))
  /\ \A i \in CallsOf("order_parts") :
       /\ tool_calls[i].result.order_id \in DOMAIN orders_db
       /\ orders_db[tool_calls[i].result.order_id] = tool_calls[i].result.details

\* two trainings were scheduled for one employee id and a room was booked in
\* between
C28_Witness ==
  /\ Len(tool_calls) = 3
  /\ tool_calls[1].tool = "schedule_training"
  /\ tool_calls[2].tool = "book_meeting_room"
  /\ tool_calls[3].tool = "schedule_training"
  /\ tool_calls[1].result.details.employee_id = tool_calls[3].result.details.employee_id
  /\ Len(TrainingsOf(tool_calls[1].result.details.employee_id)) = 2

(***************************************************************************)
(* C29: after any sequence of tool calls every booking ever created is in  *)
(* bookings_db under its id, as it was created but for its status: it is   *)
(* "confirmed" as long as no cancel_booking with its id followed and       *)
(* "cancelled" from then on; cancelling it again succeeds and leaves it    *)
(* cancelled; cancel_booking with an unknown id returns status "error" and *)
(* changes no booking.                                                     *)
(***************************************************************************)
\* the cancel_booking calls after call i that found the booking with this id
CancelsAfter(i, booking_id) ==
  {j \in CallsOf("cancel_booking") :
     /\ j > i
     /\ tool_calls[j].found
     /\ tool_calls[j].result.booking_id = booking_id}

C29_BookingsKept ==
  /\ \A i \in CallsOf("book_meeting_room") :
       LET created == tool_calls[i].result.details
           booking_id == tool_calls[i].result.booking_id
       IN /\ created.status = "confirmed"
          /\ booking_id \in DOMAIN bookings_db
          /\ \A f \in (DOMAIN created) \ {"status"} :
               bookings_db[booking_id][f] = created[f]
          /\ IF CancelsAfter(i, booking_id) = {}
             THEN bookings_db[booking_id] = created
             ELSE LET last == CHOOSE j \in CancelsAfter(i, booking_id) :
                                \A k \in CancelsAfter(i, booking_id) : k <= j
                  IN /\ bookings_db[booking_id].status = "cancelled"
                     /\ bookings_db[booking_id] = tool_calls[last].result.details
  /\ \A k \in DOMAIN bookings_db :
       /\ bookings_db[k].status \in {"confirmed", "cancelled"}
       /\ \E i \in CallsOf("book_meeting_room") : tool_calls[i].result.booking_id = k
  /\ \A j \in CallsOf("cancel_booking") :
       IF tool_calls[j].found
       THEN /\ tool_calls[j].result.status = "success"
            /\ tool_calls[j].result.details.status = "cancelled"
       ELSE tool_calls[j].result.status = "error"

\* a booking was made, cancelled, and cancelled again
C29_Witness ==
  /\ Len(tool_calls) = 3
  /\ tool_calls[1].tool = "book_meeting_room"
  /\ Cardinality(CancelsAfter(1, tool_calls[1].result.booking_id)) = 2
  /\ tool_calls[3].result.status = "success"
  /\ bookings_db[tool_calls[1].result.booking_id].status = "cancelled"

(***************************************************************************)
(* AgentManager of aviation-mas-a2a: registration and message routing.     *)
(***************************************************************************)
hr_keywords ==
  << <<"c","r","e","w">>,
     <<"p","i","l","o","t">>,
     <<"s","t","a","f","f">>,
     <<"t","r","a","i","n","i","n","g">>,
     <<"c","e","r","t","i","f","i","c","a","t","i","o","n">>,
     <<"s","c","h","e","d","u","l","e">> >>

meeting_keywords ==
  << <<"m","e","e","t","i","n","g">>,
     <<"s","c","h","e","d","u","l","e">>,
     <<"c","a","l","e","n","d","a","r">>,
     <<"a","p","p","o","i","n","t","m","e","n","t">>,
     <<"c","o","n","f","e","r","e","n","c","e">> >>

supply_chain_keywords ==
  << <<"i","n","v","e","n","t","o","r","y">>,
     <<"p","a","r","t","s">>,
     <<"s","u","p","p","l","y">>,
     <<"o","r","d","e","r">>,
     <<"v","e","n","d","o","r">>,
     <<"p","r","o","c","u","r","e","m","e","n","t">> >>

\* the keyword lists are tried in the order supply_chain, meeting, hr
determine_target_agent_supply_first(message) ==
  LET message_lower == lower(message)
  IN IF any_keyword(supply_chain_keywords, message_lower) THEN "supply_chain"
     ELSE IF any_keyword(meeting_keywords, message_lower) THEN "meeting"
     ELSE IF any_keyword(hr_keywords, message_lower) THEN "hr"
     ELSE "base"

\* _determine_target_agent
determine_target_agent(message) ==
  LET message_lower == lower(message)
  IN IF any_keyword(hr_keywords, message_lower) THEN "hr"
     ELSE IF any_keyword(meeting_keywords, message_lower) THEN "meeting"
     ELSE IF any_keyword(supply_chain_keywords, message_lower) THEN "supply_chain"
     ELSE "base"

\* not target_agent
NoTarget(target_agent) == target_agent \in {"None", ""}

\* what process_message can return: a demo answer, the model's answer, or
\* the error payload of its own handler
ProcessOutcomes == {"demo", "live", "error"}

process_message(agent_type, message, outcome) ==
  IF outcome = "error"
  THEN [status |-> "error", agent_type |-> agent_type]
  ELSE [status |-> "success", agent_type |-> agent_type,
        received |-> message, mode |-> outcome]

\* self.agents[agent_type] = agent: a new key goes last, a known key keeps its place
register_agent(registered, agent_type) ==
  IF \E i \in 1..Len(registered) : registered[i] = agent_type
  THEN registered
  ELSE Append(registered, agent_type)

RECURSIVE register_all(_, _)
register_all(registered, agent_types) ==
  IF agent_types = <<>> THEN registered
  ELSE register_all(register_agent(registered, Head(agent_types)), Tail(agent_types))

\* initialize_agents
initialize_agents(registered) ==
  register_all(registered, <<"base", "hr", "meeting", "supply_chain">>)

\* route_message: the agents that were handed the message, and the result
route_message(message, target_agent, registered, outcome) ==
  LET target == IF NoTarget(target_agent) THEN determine_target_agent(message)
                ELSE target_agent
  IN IF \E i \in 1..Len(registered) : registered[i] = target
     THEN [processed |-> <<target>>,
           result |-> [status |-> "success",
                       agent |-> target,
                       response |-> process_message(target, message, outcome)]]
     ELSE [processed |-> <<>>,
           result |-> [status |-> "error",
                       message |-> <<"Agent '", target, "' not found">>,
                       available_agents |-> registered]]

RouteText ==
  [ r_schedule |-> <<"S","c","h","e","d","u","l","e"," ","a"," ","m","e","e","t","i","n","g">>,
    r_pilot |-> <<"P","I","L","O","T"," ","i","n","v","e","n","t","o","r","y">>,
    r_order |-> <<"o","r","d","e","r"," ","p","a","r","t","s"," ","f","o","r"," ","t","h","e"," ","m","e","e","t","i","n","g">>,
    r_vendor |-> <<"v","e","n","d","o","r"," ","p","r","o","c","u","r","e","m","e","n","t">>,
    r_hello |-> <<"h","e","l","l","o">> ]

RouteMessages == {RouteText[name] : name \in DOMAIN RouteText}

\* register_agent is called with a specialised type and with one that gets the generic agent
AgentTypes == {"hr", "finance"}

\* target_agent of a MessageRequest: None (written "None"), the empty string, or a type
TargetAgents == {"None", "", "meeting", "finance"}

RegisterAgent(agent_type) ==
  /\ agents' = register_agent(agents, agent_type)
  /\ UNCHANGED <<last_route, tool_calls, requests, submitted, tasks, orch, responses,
                 stores, uuid_counter, clock>>

InitializeAgents ==
  /\ agents' = initialize_agents(agents)
  /\ UNCHANGED <<last_route, tool_calls, requests, submitted, tasks, orch, responses,
                 stores, uuid_counter, clock>>

Shutdown ==
  /\ agents' = <<>>
  /\ UNCHANGED <<last_route, tool_calls, requests, submitted, tasks, orch, responses,
                 stores, uuid_counter, clock>>

RouteMessage(message, target_agent) ==
  /\ \E outcome \in ProcessOutcomes :
       LET out == route_message(message, target_agent, agents, outcome)
       IN last_route' = [called |-> TRUE, message |-> message,
                         target_agent |-> target_agent, registered |-> agents,
                         processed |-> out.processed, result |-> out.result]
  /\ UNCHANGED <<agents, tool_calls, requests, submitted, tasks, orch, responses,
                 stores, uuid_counter, clock>>

InitRoute == InitWith(<<>>)

NextRoute ==
  \/ \E agent_type \in AgentTypes : RegisterAgent(agent_type)
  \/ InitializeAgents
  \/ Shutdown
  \/ \E message \in RouteMessages, target_agent \in TargetAgents :
       RouteMessage(message, target_agent)

SpecRoute == InitRoute /\ [][NextRoute]_vars

\* the message, lowercased, contains a keyword of the list
Mentions(keywords, message) ==
  \E i \in 1..Len(keywords) : contains(keywords[i], lower(message))

\* the agent types registered when route_message was called
RegisteredAtCall == {last_route.registered[i] : i \in 1..Len(last_route.registered)}

(***************************************************************************)
(* C30: route_message called without a target picks "hr" if the message    *)
(* mentions an hr keyword, else "meeting" if it mentions a meeting         *)
(* keyword, else "supply_chain" if it mentions a supply chain keyword,     *)
(* else "base"; a message with an hr keyword ("schedule" among them) is    *)
(* not handed to the meeting agent.  If the picked or given target is      *)
(* registered exactly that agent processes the message; if not, no agent   *)
(* processes it and the result has status "error" and lists the registered *)
(* agents.                                                                 *)
(***************************************************************************)
C30_RouteMessage ==
  last_route.called =>
    LET message == last_route.message
        hr == Mentions(hr_keywords, message)
        meeting == Mentions(meeting_keywords, message)
        supply_chain == Mentions(supply_chain_keywords, message)
        picked == CASE hr -> "hr"
                    [] ~hr /\ meeting -> "meeting"
                    [] ~hr /\ ~meeting /\ supply_chain -> "supply_chain"
                    [] OTHER -> "base"
        target == IF NoTarget(last_route.target_agent) THEN picked
                  ELSE last_route.target_agent
    IN /\ Len(last_route.processed) <= 1
       /\ (NoTarget(last_route.target_agent) /\ hr) =>
            \A i \in 1..Len(last_route.processed) : last_route.processed[i] # "meeting"
       /\ IF target \in RegisteredAtCall
          THEN /\ last_route.processed = <<target>>
               /\ last_route.result.status = "success"
               /\ last_route.result.agent = target
               /\ last_route.result.response.agent_type = target
          ELSE /\ last_route.processed = <<>>
               /\ last_route.result.status = "error"
               /\ last_route.result.available_agents = last_route.registered

\* "Schedule a meeting" without a target went to hr while meeting was registered too
C30_Witness ==
  /\ last_route.called
  /\ last_route.message = RouteText.r_schedule
  /\ last_route.target_agent = "None"
  /\ {"hr", "meeting"} \subseteq RegisteredAtCall
  /\ last_route.processed = <<"hr">>
  /\ last_route.result.status = "success"
====
